---- MODULE Spec2Model ----
(***************************************************************************)
(* SimICU core simulation engine (src/simicu/sim_icu_logic.py) and the     *)
(* environment that drives it (src/simicu/sim_icu_env.py).                 *)
(*                                                                         *)
(* Patient.severity is a float in the source; every rate the engine uses   *)
(* (0.5, 0.1, 1.5, 3.0) is a multiple of 0.1, so severity is kept here in  *)
(* tenths (400 stands for 40.0).  The source clamps with max(0.0, .) and   *)
(* min(100.0, .) and tests <= 0.0 and >= 100.0, so the two bounds are hit  *)
(* exactly in both representations.                                        *)
(*                                                                         *)
(* patients is the Python list self.patients: position k (1-based here)    *)
(* holds the k-th patient created since the last reset.  Resources are     *)
(* named by their id (0 .. n-1) and None is the empty reference.           *)
(***************************************************************************)
EXTENDS Integers, Sequences, FiniteSets

VARIABLES
    num_nurses, num_beds, num_ventilators,  \* the pool sizes
    patients,                   \* self.patients
    nurses, beds, ventilators,  \* id -> the resource's available flag
    next_patient_id,
    tick,
    patients_saved, patients_lost, total_wait_time,
    next_arrival,
    just_saved_a_patient, just_lost_a_patient, just_incurred_setup_delay,
    free_beds, free_nurses, free_vents,   \* self._free_beds, ...
    call,                       \* the name of the last operation called
    ret,                        \* what that call returned
    action,                     \* the (patient_slot_id, action_type) of the last step
    reward,                     \* the terms of the reward the last step returned
    terminated,                 \* the terminated flag the last step returned
    truncated,                  \* the truncated flag the last step returned
    observation,                \* the observation the last reset or step returned
    info,                       \* the info the last reset or step returned
    max_ticks,                  \* SimICUEnv.max_ticks
    seed,                       \* the seed given to the last reset, or None
    np_random,                  \* numpy's global generator once seeded: the
                                \* draws of np.random.exponential to come
    pending_assignments,        \* a front-end's queue of tasks: the nurse on
                                \* its way, the patient, and the bed or the
                                \* ventilator it was queued for
    selected_patient,           \* RetroSimICU.selected_patient, or NoPatient
    input_cooldown_ticks,       \* RetroSimICU.input_cooldown_ticks
    deferred_action,            \* ModernSimICU.deferred_action, or NoAction
    ready_to_apply_deferred,    \* ModernSimICU.ready_to_apply_deferred
    patient_moves,              \* ModernSimICU.patient_moves: the ids walking
    episode,                    \* the number of resets so far: a Patient
                                \* object is named by the episode it was
                                \* created in and its id
    dropped                     \* the Patient objects that a reset has taken
                                \* out of self.patients and a queued task
                                \* still refers to

vars == << num_nurses, num_beds, num_ventilators,
           patients, nurses, beds, ventilators, next_patient_id, tick,
           patients_saved, patients_lost, total_wait_time, next_arrival,
           just_saved_a_patient, just_lost_a_patient, just_incurred_setup_delay,
           free_beds, free_nurses, free_vents, call, ret,
           action, reward, terminated, truncated, observation, info, max_ticks,
           seed, np_random, pending_assignments, selected_patient,
           input_cooldown_ticks, deferred_action, ready_to_apply_deferred,
           patient_moves, episode, dropped >>

\* the state of the front-ends, which the engine and the environment leave
front == << pending_assignments, selected_patient, input_cooldown_ticks,
            deferred_action, ready_to_apply_deferred, patient_moves, episode,
            dropped >>

----------------------------------------------------------------------------
(* Bounds of the model *)

\* pool sizes (constructor arguments of SimICU)
NumBeds == 2
NumNurses == 1
NumVents == 1
\* patients created within one run
MaxPatients == 2
\* ticks explored after a reset
MaxTick == 78
\* the two ticks at which the decision source acts
FirstDecisionTick == 1
SecondDecisionTick == 34
\* the environment: its pool sizes, the size of its action space, the length
\* of an episode, and the ticks at which it is given decisions other than
\* (0, NO_OP): the first EarlySteps steps after a reset and one late tick;
\* ShortMaxTicks is the max_ticks of an environment whose episodes are over
\* before the ticks reset runs
EnvNumNurses == 3
EnvNumBeds == 2
EnvNumVents == 1
max_patients == 3
EnvMaxTicks == 28
ShortMaxTicks == 3
\* max_ticks of the environments that are reset with a seed
SeededMaxTicks == 8
EarlySteps == 2
LateDecisionTick == 26
\* ticks explored in the runs that leave a patient waiting
WaitHorizon == 200

----------------------------------------------------------------------------
(* Program constants *)

None == -1

WAITING == "waiting"
IN_BED == "in_bed"
ON_VENTILATOR == "on_ventilator"
CURED == "cured"
LOST == "lost"

PatientStatus == {WAITING, IN_BED, ON_VENTILATOR, CURED, LOST}

\* one unit of severity, in tenths
Scale == 10
MinSeverity == 0
MaxSeverity == 1000
\* random.randint(40, 60)
InitialSeverityLow == 40
InitialSeverityHigh == 60
\* WAITING: 0.5 + (time_waiting // 20) * 0.1
WaitingLoss == 5
WaitingBlock == 20
WaitingExtra == 1
\* IN_BED: + 1.5, ON_VENTILATOR: + 3.0
BedGain == 15
VentGain == 30
BedSetupTicks == 3
VentSetupTicks == 5

ADMIT_BED == 0
ADMIT_VENTILATOR == 1
NO_OP == 2

\* a status step tests for; PatientStatus has no such member and no
\* operation of the engine gives it to a patient
PENDING_DISCHARGE == "pending_discharge"
\* the archetypes sim_icu_env.py imports as PatientType; sim_icu_logic.py
\* defines no such enumeration
RESPIRATORY == "respiratory"
CARDIAC == "cardiac"
TRAUMA == "trauma"
PatientType == {RESPIRATORY, CARDIAC, TRAUMA}
\* a patient's archetype, which _get_state reads as patient.patient_type and
\* Patient.__init__ does not set: fixed at creation, here by the patient's id
patient_type(p) ==
    IF p.id % 3 = 0 THEN RESPIRATORY ELSE IF p.id % 3 = 1 THEN CARDIAC ELSE TRAUMA

\* the ticks SimICUEnv.reset runs before the first step
PreTicks == 5
\* step's fixed penalties, in thousandths: -5.0, -2.0, -5.0 and -0.5
InvalidTargetPenalty == 5000
NoResourcePenalty == 2000
SetupDelayPenalty == 5000
IdlePenalty == 500

----------------------------------------------------------------------------
(* Inputs *)

\* draws of random.randint(40, 60) the model follows
InitialSeverities == {InitialSeverityLow, InitialSeverityHigh}

\* draws of int(np.random.exponential(1 / arrival_rate)) the model follows;
\* the last one puts the next arrival beyond the ticks explored
FarGap == MaxTick + 1
ArrivalGaps == {0, FarGap}

\* patient ids and action types handed to perform_action (one id that is
\* never in the list, one action type that is none of the three)
PatientIds == 0 .. MaxPatients
ActionTypes == 0 .. 3

BedIds == 0 .. NumBeds - 1
NurseIds == 0 .. NumNurses - 1
VentIds == 0 .. NumVents - 1

Min(a, b) == IF a <= b THEN a ELSE b
Max(a, b) == IF a >= b THEN a ELSE b

----------------------------------------------------------------------------
(* Patient *)

NewPatient(patient_id, initial_severity) ==
    [ id |-> patient_id,
      severity |-> initial_severity * Scale,
      short |-> FALSE,
      status |-> WAITING,
      time_waiting |-> 0,
      assigned_nurse |-> None,
      assigned_bed |-> None,
      assigned_ventilator |-> None,
      bed_setup_ticks |-> 0,
      vent_setup_ticks |-> 0 ]

\* Rounding.  0.5, 1.5 and 3.0 are binary fractions, 0.5 + k * 0.1 is not for
\* k >= 1: once a patient has waited WaitingBlock ticks its float severity is
\* off its decimal value by some 1e-14.  The one place this shows is a gain
\* that lands exactly on 100: the float sum may come out as 99.99999999999997,
\* min(100.0, .) leaves it, and the >= 100.0 test fails for this tick.  The
\* field short records that the float is just under the severity written here.
MayFallShort(p, gain) ==
    /\ p.time_waiting >= WaitingBlock
    /\ ~ p.short
    /\ p.severity + gain = MaxSeverity

\* what a WAITING patient loses in the tick that takes its time_waiting to w
WaitingDecay_BeforeIncrement(w) ==
    WaitingLoss + ((w - 1) \div WaitingBlock) * WaitingExtra

WaitingDecay(w) == WaitingLoss + (w \div WaitingBlock) * WaitingExtra

\* At the lower end the same rounding shows when a loss lands exactly on 0:
\* the float difference may come out as some 1e-14, max(0.0, .) leaves it,
\* and the <= 0.0 test fails for this tick (patients created at 25 and at 95
\* are LOST one tick after their decimal value reaches 0).  The field short
\* then records that the float is just over the 0 written here.  No patient
\* created at 40 .. 60 lands exactly on 0.
MayStayAbove(p) ==
    /\ p.time_waiting + 1 >= WaitingBlock
    /\ p.severity > MinSeverity
    /\ p.severity - WaitingDecay(p.time_waiting + 1) = MinSeverity

\* mutant: the gain without min(100.0, .)
Gain_NoClamp(p, gain, short) ==
    [p EXCEPT !.severity = p.severity + gain,
              !.short = short /\ MayFallShort(p, gain)]

\* mutant: the gain is capped just under 100
Gain_BelowFull(p, gain, short) ==
    [p EXCEPT !.severity = Min(MaxSeverity - 1, p.severity + gain),
              !.short = FALSE]

\* min(100.0, self.severity + gain); short is the outcome of the rounding
Gain(p, gain, short) ==
    [p EXCEPT !.severity = Min(MaxSeverity, p.severity + gain),
              !.short = short /\ MayFallShort(p, gain)]

\* mutant: the last branch as a plain else, so that it also takes CURED and LOST
PatientCare_ElseVentilator(p, short) ==
    IF p.status = WAITING THEN
        LET w == p.time_waiting + 1 IN
        [p EXCEPT !.time_waiting = w,
                  !.severity = Max(MinSeverity, p.severity - WaitingDecay(w)),
                  !.short = short /\ MayStayAbove(p)]
    ELSE IF p.status = IN_BED THEN
        IF p.bed_setup_ticks > 0
        THEN [p EXCEPT !.bed_setup_ticks = p.bed_setup_ticks - 1]
        ELSE Gain(p, BedGain, short)
    ELSE
        IF p.vent_setup_ticks > 0
        THEN [p EXCEPT !.vent_setup_ticks = p.vent_setup_ticks - 1]
        ELSE Gain(p, VentGain, short)

\* mutant: bed care heals while the bed setup countdown is still running
PatientCare_HealsDuringSetup(p, short) ==
    IF p.status = WAITING THEN
        LET w == p.time_waiting + 1 IN
        [p EXCEPT !.time_waiting = w,
                  !.severity = Max(MinSeverity, p.severity - WaitingDecay(w)),
                  !.short = short /\ MayStayAbove(p)]
    ELSE IF p.status = IN_BED THEN
        IF p.bed_setup_ticks > 0
        THEN [Gain(p, BedGain, short) EXCEPT !.bed_setup_ticks = p.bed_setup_ticks - 1]
        ELSE Gain(p, BedGain, short)
    ELSE IF p.status = ON_VENTILATOR THEN
        IF p.vent_setup_ticks > 0
        THEN [p EXCEPT !.vent_setup_ticks = p.vent_setup_ticks - 1]
        ELSE Gain(p, VentGain, short)
    ELSE p

\* mutant: a ventilator patient first sits out what is left of its bed setup
PatientCare_BedSetupFirst(p, short) ==
    IF p.status = WAITING THEN
        LET w == p.time_waiting + 1 IN
        [p EXCEPT !.time_waiting = w,
                  !.severity = Max(MinSeverity, p.severity - WaitingDecay(w)),
                  !.short = short /\ MayStayAbove(p)]
    ELSE IF p.status = IN_BED THEN
        IF p.bed_setup_ticks > 0
        THEN [p EXCEPT !.bed_setup_ticks = p.bed_setup_ticks - 1]
        ELSE Gain(p, BedGain, short)
    ELSE IF p.status = ON_VENTILATOR THEN
        IF p.bed_setup_ticks > 0
        THEN [p EXCEPT !.bed_setup_ticks = p.bed_setup_ticks - 1]
        ELSE IF p.vent_setup_ticks > 0
        THEN [p EXCEPT !.vent_setup_ticks = p.vent_setup_ticks - 1]
        ELSE Gain(p, VentGain, short)
    ELSE p

\* the status-specific part of Patient.update
PatientCare(p, short) ==
    IF p.status = WAITING THEN
        LET w == p.time_waiting + 1 IN
        [p EXCEPT !.time_waiting = w,
                  !.severity = Max(MinSeverity, p.severity - WaitingDecay(w)),
                  !.short = short /\ MayStayAbove(p)]
    ELSE IF p.status = IN_BED THEN
        IF p.bed_setup_ticks > 0
        THEN [p EXCEPT !.bed_setup_ticks = p.bed_setup_ticks - 1]
        ELSE Gain(p, BedGain, short)
    ELSE IF p.status = ON_VENTILATOR THEN
        IF p.vent_setup_ticks > 0
        THEN [p EXCEPT !.vent_setup_ticks = p.vent_setup_ticks - 1]
        ELSE Gain(p, VentGain, short)
    ELSE p

\* mutant: the lower test as < 0.0, which max(0.0, .) never lets through
AtZero_Strict(p) == p.severity < MinSeverity

\* the tests self.severity >= 100.0 and self.severity <= 0.0
AtFull(p) == p.severity >= MaxSeverity /\ ~ p.short
AtZero(p) == p.severity <= MinSeverity /\ ~ p.short

\* the rounding outcomes one tick can have over the list ps
CanFallShort(p) ==
    \/ p.status = WAITING /\ MayStayAbove(p)
    \/ p.status = IN_BED /\ p.bed_setup_ticks = 0 /\ MayFallShort(p, BedGain)
    \/ p.status = ON_VENTILATOR /\ p.vent_setup_ticks = 0 /\ MayFallShort(p, VentGain)

Roundings(ps) ==
    LET exact == [k \in 1 .. Len(ps) |-> FALSE] IN
    IF \E k \in 1 .. Len(ps) : CanFallShort(ps[k])
    THEN {f \in [1 .. Len(ps) -> BOOLEAN] :
            \A k \in 1 .. Len(ps) : f[k] => CanFallShort(ps[k])}
    ELSE {exact}

----------------------------------------------------------------------------
(* SimICU: the engine's state as one value s, so that an operation that    *)
(* calls another one composes.  A patient's references to its resources    *)
(* are in s.patients, the resources' flags in s.nurses, s.beds and         *)
(* s.ventilators.                                                           *)

Engine ==
    [ num_nurses |-> num_nurses,
      num_beds |-> num_beds,
      num_ventilators |-> num_ventilators,
      patients |-> patients,
      nurses |-> nurses,
      beds |-> beds,
      ventilators |-> ventilators,
      next_patient_id |-> next_patient_id,
      tick |-> tick,
      patients_saved |-> patients_saved,
      patients_lost |-> patients_lost,
      total_wait_time |-> total_wait_time,
      next_arrival |-> next_arrival,
      just_saved_a_patient |-> just_saved_a_patient,
      just_lost_a_patient |-> just_lost_a_patient,
      just_incurred_setup_delay |-> just_incurred_setup_delay,
      free_beds |-> free_beds,
      free_nurses |-> free_nurses,
      free_vents |-> free_vents ]

\* resource.available = True, for the resource a reference names
MadeAvailable(pool, r) == IF r = None THEN pool ELSE [pool EXCEPT ![r] = TRUE]

\* mutant: the ventilator reference is not cleared
release_resources_KeepVentilator(s, k) ==
    LET p == s.patients[k] IN
    [s EXCEPT !.nurses = MadeAvailable(s.nurses, p.assigned_nurse),
              !.beds = MadeAvailable(s.beds, p.assigned_bed),
              !.ventilators = MadeAvailable(s.ventilators, p.assigned_ventilator),
              !.patients[k].assigned_nurse = None,
              !.patients[k].assigned_bed = None]

\* Patient._release_resources, for the patient at position k
release_resources(s, k) ==
    LET p == s.patients[k] IN
    [s EXCEPT !.nurses = MadeAvailable(s.nurses, p.assigned_nurse),
              !.beds = MadeAvailable(s.beds, p.assigned_bed),
              !.ventilators = MadeAvailable(s.ventilators, p.assigned_ventilator),
              !.patients[k].assigned_nurse = None,
              !.patients[k].assigned_bed = None,
              !.patients[k].assigned_ventilator = None]

\* mutant: > 100.0 for >= 100.0
Transitions_StrictFull(s, k, q) ==
    IF q.severity > MaxSeverity /\ q.status # CURED
    THEN release_resources([s EXCEPT !.patients[k] = [q EXCEPT !.status = CURED]], k)
    ELSE IF AtZero(q) /\ q.status # LOST
    THEN release_resources([s EXCEPT !.patients[k] = [q EXCEPT !.status = LOST]], k)
    ELSE [s EXCEPT !.patients[k] = q]

\* the state transitions at the end of Patient.update, q being the patient
\* after the status-specific part
Transitions(s, k, q) ==
    IF AtFull(q) /\ q.status # CURED
    THEN release_resources([s EXCEPT !.patients[k] = [q EXCEPT !.status = CURED]], k)
    ELSE IF AtZero(q) /\ q.status # LOST
    THEN release_resources([s EXCEPT !.patients[k] = [q EXCEPT !.status = LOST]], k)
    ELSE [s EXCEPT !.patients[k] = q]

\* Patient.update, for the patient at position k
PatientUpdate(s, k, short) == Transitions(s, k, PatientCare(s.patients[k], short))

\* mutant: the scan keeps the last available resource it sees
FirstAvailable_Last(pool) ==
    IF \E r \in DOMAIN pool : pool[r]
    THEN CHOOSE r \in DOMAIN pool :
            pool[r] /\ \A r2 \in DOMAIN pool : pool[r2] => r >= r2
    ELSE None

\* the first resource of a pool whose available flag is set, or None
FirstAvailable(pool) ==
    IF \E r \in DOMAIN pool : pool[r]
    THEN CHOOSE r \in DOMAIN pool :
            pool[r] /\ \A r2 \in DOMAIN pool : pool[r2] => r <= r2
    ELSE None

get_available_nurse(s) == FirstAvailable(s.nurses)
get_available_bed(s) == FirstAvailable(s.beds)
get_available_ventilator(s) == FirstAvailable(s.ventilators)

\* an operation's outcome: its return value and the engine it leaves
Outcome(ok, s) == [ok |-> ok, s |-> s]

\* mutant: the bed setup countdown is not started
ReserveBedAndNurse_NoSetup(s, k, bed, nurse) ==
    [s EXCEPT !.patients[k].assigned_bed = bed,
              !.patients[k].assigned_nurse = nurse,
              !.beds[bed] = FALSE,
              !.nurses[nurse] = FALSE,
              !.patients[k].status = IN_BED,
              !.free_beds = s.free_beds - 1,
              !.free_nurses = s.free_nurses - 1]

\* the assignment both bed operations perform once bed and nurse are chosen
ReserveBedAndNurse(s, k, bed, nurse) ==
    [s EXCEPT !.patients[k].assigned_bed = bed,
              !.patients[k].assigned_nurse = nurse,
              !.beds[bed] = FALSE,
              !.nurses[nurse] = FALSE,
              !.patients[k].status = IN_BED,
              !.patients[k].bed_setup_ticks = BedSetupTicks,
              !.free_beds = s.free_beds - 1,
              !.free_nurses = s.free_nurses - 1]

\* mutant: without the test of the patient's status
assign_patient_to_bed_NoStatusTest(s, k) ==
    IF s.free_beds <= 0 \/ s.free_nurses <= 0 THEN Outcome(FALSE, s)
    ELSE LET bed == get_available_bed(s)
             nurse == get_available_nurse(s)
         IN IF bed # None /\ nurse # None
            THEN Outcome(TRUE, ReserveBedAndNurse(s, k, bed, nurse))
            ELSE Outcome(FALSE, s)

\* SimICU.assign_patient_to_bed; k is the patient's position in the list
assign_patient_to_bed(s, k) ==
    IF s.patients[k].status # WAITING THEN Outcome(FALSE, s)
    ELSE IF s.free_beds <= 0 \/ s.free_nurses <= 0 THEN Outcome(FALSE, s)
    ELSE LET bed == get_available_bed(s)
             nurse == get_available_nurse(s)
         IN IF bed # None /\ nurse # None
            THEN Outcome(TRUE, ReserveBedAndNurse(s, k, bed, nurse))
            ELSE Outcome(FALSE, s)

\* mutant: the nurse handed in is taken without the test of its flag
assign_patient_to_specific_bed_NurseUnchecked(s, k, bed, nurse) ==
    IF s.patients[k].status # WAITING THEN Outcome(FALSE, s)
    ELSE IF bed = None \/ ~ s.beds[bed] THEN Outcome(FALSE, s)
    ELSE IF s.free_beds <= 0 \/ s.free_nurses <= 0 THEN Outcome(FALSE, s)
    ELSE LET chosen_nurse == IF nurse # None THEN nurse ELSE get_available_nurse(s)
         IN IF chosen_nurse = None
            THEN Outcome(FALSE, s)
            ELSE Outcome(TRUE, ReserveBedAndNurse(s, k, bed, chosen_nurse))

\* SimICU.assign_patient_to_specific_bed; bed and nurse are ids or None
assign_patient_to_specific_bed(s, k, bed, nurse) ==
    IF s.patients[k].status # WAITING THEN Outcome(FALSE, s)
    ELSE IF bed = None \/ ~ s.beds[bed] THEN Outcome(FALSE, s)
    ELSE IF s.free_beds <= 0 \/ s.free_nurses <= 0 THEN Outcome(FALSE, s)
    ELSE LET chosen_nurse == IF nurse # None THEN nurse ELSE get_available_nurse(s)
         IN IF chosen_nurse = None \/ ~ s.nurses[chosen_nurse]
            THEN Outcome(FALSE, s)
            ELSE Outcome(TRUE, ReserveBedAndNurse(s, k, bed, chosen_nurse))

\* mutant: the ventilator counter is not decremented
ReserveVentilator_NoCount(s, k, ventilator) ==
    [s EXCEPT !.patients[k].assigned_ventilator = ventilator,
              !.ventilators[ventilator] = FALSE,
              !.patients[k].status = ON_VENTILATOR,
              !.patients[k].vent_setup_ticks = VentSetupTicks]

\* mutant: the ventilator is reserved and the status left as it was
ReserveVentilator_NoStatus(s, k, ventilator) ==
    [s EXCEPT !.patients[k].assigned_ventilator = ventilator,
              !.ventilators[ventilator] = FALSE,
              !.patients[k].vent_setup_ticks = VentSetupTicks,
              !.free_vents = s.free_vents - 1]

\* the ventilator part of assign_patient_to_ventilator
ReserveVentilator(s, k, ventilator) ==
    [s EXCEPT !.patients[k].assigned_ventilator = ventilator,
              !.ventilators[ventilator] = FALSE,
              !.patients[k].status = ON_VENTILATOR,
              !.patients[k].vent_setup_ticks = VentSetupTicks,
              !.free_vents = s.free_vents - 1]

\* mutant: the ventilator is taken before the bed is tried
assign_patient_to_ventilator_VentilatorFirst(s, k) ==
    IF s.patients[k].status # WAITING /\ s.patients[k].status # IN_BED
    THEN Outcome(FALSE, s)
    ELSE IF s.free_vents <= 0 THEN Outcome(FALSE, s)
    ELSE LET ventilator == get_available_ventilator(s) IN
         IF ventilator = None THEN Outcome(FALSE, s)
         ELSE LET s1 == [s EXCEPT !.patients[k].assigned_ventilator = ventilator,
                                  !.ventilators[ventilator] = FALSE,
                                  !.free_vents = s.free_vents - 1]
                  b == IF s.patients[k].status = WAITING
                       THEN assign_patient_to_bed(s1, k)
                       ELSE Outcome(TRUE, s1)
              IN IF ~ b.ok THEN Outcome(FALSE, s1)
                 ELSE Outcome(TRUE,
                        [b.s EXCEPT !.patients[k].status = ON_VENTILATOR,
                                    !.patients[k].vent_setup_ticks = VentSetupTicks])

\* SimICU.assign_patient_to_ventilator
assign_patient_to_ventilator(s, k) ==
    IF s.patients[k].status # WAITING /\ s.patients[k].status # IN_BED
    THEN Outcome(FALSE, s)
    ELSE IF s.free_vents <= 0 THEN Outcome(FALSE, s)
    ELSE LET ventilator == get_available_ventilator(s) IN
         IF ventilator = None THEN Outcome(FALSE, s)
         ELSE IF s.patients[k].status = WAITING
         THEN LET b == assign_patient_to_bed(s, k) IN
              IF ~ b.ok THEN Outcome(FALSE, s)
              ELSE Outcome(TRUE, ReserveVentilator(b.s, k, ventilator))
         ELSE Outcome(TRUE, ReserveVentilator(s, k, ventilator))

\* mutant: the search leaves the last patient it looked at when none has the id
FindPatient_LastSeen(s, patient_id) ==
    IF \E k \in 1 .. Len(s.patients) : s.patients[k].id = patient_id
    THEN CHOOSE k \in 1 .. Len(s.patients) :
            /\ s.patients[k].id = patient_id
            /\ \A j \in 1 .. Len(s.patients) : s.patients[j].id = patient_id => k <= j
    ELSE Len(s.patients)

\* perform_action's search: the position of the first patient with this id, 0 if none
FindPatient(s, patient_id) ==
    IF \E k \in 1 .. Len(s.patients) : s.patients[k].id = patient_id
    THEN CHOOSE k \in 1 .. Len(s.patients) :
            /\ s.patients[k].id = patient_id
            /\ \A j \in 1 .. Len(s.patients) : s.patients[j].id = patient_id => k <= j
    ELSE 0

\* mutant: a refused bed admission returns True
perform_action_RefusalTrue(s, patient_id, action_type) ==
    LET k == FindPatient(s, patient_id) IN
    IF k = 0 THEN Outcome(FALSE, s)
    ELSE IF s.patients[k].status \in {CURED, LOST} THEN Outcome(FALSE, s)
    ELSE IF action_type = ADMIT_BED THEN
        IF s.free_beds > 0 /\ s.free_nurses > 0
        THEN assign_patient_to_bed(s, k)
        ELSE Outcome(TRUE, s)
    ELSE IF action_type = ADMIT_VENTILATOR THEN
        IF s.free_vents > 0
        THEN LET s1 == IF s.patients[k].status = IN_BED
                       THEN [s EXCEPT !.just_incurred_setup_delay = TRUE]
                       ELSE s
             IN assign_patient_to_ventilator(s1, k)
        ELSE Outcome(FALSE, s)
    ELSE IF action_type = NO_OP THEN Outcome(TRUE, s)
    ELSE Outcome(FALSE, s)

\* mutant: the status is tested for IN_BED after the assignment has changed it
perform_action_LateFlag(s, patient_id, action_type) ==
    LET k == FindPatient(s, patient_id) IN
    IF k = 0 THEN Outcome(FALSE, s)
    ELSE IF s.patients[k].status \in {CURED, LOST} THEN Outcome(FALSE, s)
    ELSE IF action_type = ADMIT_BED THEN
        IF s.free_beds > 0 /\ s.free_nurses > 0
        THEN assign_patient_to_bed(s, k)
        ELSE Outcome(FALSE, s)
    ELSE IF action_type = ADMIT_VENTILATOR THEN
        IF s.free_vents > 0
        THEN LET r == assign_patient_to_ventilator(s, k) IN
             IF r.s.patients[k].status = IN_BED
             THEN Outcome(r.ok, [r.s EXCEPT !.just_incurred_setup_delay = TRUE])
             ELSE r
        ELSE Outcome(FALSE, s)
    ELSE IF action_type = NO_OP THEN Outcome(TRUE, s)
    ELSE Outcome(FALSE, s)

\* mutant: action type 2 has no branch and falls through to the last return
perform_action_NoOpFalse(s, patient_id, action_type) ==
    LET k == FindPatient(s, patient_id) IN
    IF k = 0 THEN Outcome(FALSE, s)
    ELSE IF s.patients[k].status \in {CURED, LOST} THEN Outcome(FALSE, s)
    ELSE IF action_type = ADMIT_BED THEN
        IF s.free_beds > 0 /\ s.free_nurses > 0
        THEN assign_patient_to_bed(s, k)
        ELSE Outcome(FALSE, s)
    ELSE IF action_type = ADMIT_VENTILATOR THEN
        IF s.free_vents > 0
        THEN LET s1 == IF s.patients[k].status = IN_BED
                       THEN [s EXCEPT !.just_incurred_setup_delay = TRUE]
                       ELSE s
             IN assign_patient_to_ventilator(s1, k)
        ELSE Outcome(FALSE, s)
    ELSE Outcome(FALSE, s)

\* SimICU.perform_action
perform_action(s, patient_id, action_type) ==
    LET k == FindPatient(s, patient_id) IN
    IF k = 0 THEN Outcome(FALSE, s)
    ELSE IF s.patients[k].status \in {CURED, LOST} THEN Outcome(FALSE, s)
    ELSE IF action_type = ADMIT_BED THEN
        IF s.free_beds > 0 /\ s.free_nurses > 0
        THEN assign_patient_to_bed(s, k)
        ELSE Outcome(FALSE, s)
    ELSE IF action_type = ADMIT_VENTILATOR THEN
        IF s.free_vents > 0
        THEN LET s1 == IF s.patients[k].status = IN_BED
                       THEN [s EXCEPT !.just_incurred_setup_delay = TRUE]
                       ELSE s
             IN assign_patient_to_ventilator(s1, k)
        ELSE Outcome(FALSE, s)
    ELSE IF action_type = NO_OP THEN Outcome(TRUE, s)
    ELSE Outcome(FALSE, s)

----------------------------------------------------------------------------
(* update_tick and reset *)

\* mutant: the id counter is not advanced
add_patient_SameId(s, initial_severity) ==
    [s EXCEPT !.patients = Append(s.patients,
                                  NewPatient(s.next_patient_id, initial_severity))]

\* SimICU.add_patient
add_patient(s, initial_severity) ==
    [s EXCEPT !.patients = Append(s.patients,
                                  NewPatient(s.next_patient_id, initial_severity)),
              !.next_patient_id = s.next_patient_id + 1]

\* mutant: a tick that has overshot next_arrival catches up with a second patient
Arrival_CatchUp(s, initial_severity, gap) ==
    IF s.tick > s.next_arrival
    THEN [add_patient(add_patient(s, initial_severity), initial_severity)
            EXCEPT !.next_arrival = s.tick + gap]
    ELSE IF s.tick = s.next_arrival
    THEN [add_patient(s, initial_severity) EXCEPT !.next_arrival = s.tick + gap]
    ELSE s

\* the arrival part of update_tick; initial_severity and gap are the draws of
\* random.randint and np.random.exponential
Arrival(s, initial_severity, gap) ==
    IF s.tick >= s.next_arrival
    THEN [add_patient(s, initial_severity) EXCEPT !.next_arrival = s.tick + gap]
    ELSE s

\* mutant: had_nurse is not counted
release_patient_resources_counters_NoNurse(s, had_bed, had_nurse, had_vent) ==
    [s EXCEPT !.free_beds = IF had_bed THEN s.free_beds + 1 ELSE s.free_beds,
              !.free_vents = IF had_vent THEN s.free_vents + 1 ELSE s.free_vents]

\* SimICU._release_patient_resources_counters
release_patient_resources_counters(s, had_bed, had_nurse, had_vent) ==
    [s EXCEPT !.free_beds = IF had_bed THEN s.free_beds + 1 ELSE s.free_beds,
              !.free_nurses = IF had_nurse THEN s.free_nurses + 1 ELSE s.free_nurses,
              !.free_vents = IF had_vent THEN s.free_vents + 1 ELSE s.free_vents]

\* mutant: the tally without the test of prev_status
Tally_EveryTick(s, k, prev_status, had_bed, had_nurse, had_vent) ==
    LET status == s.patients[k].status
        s1 == IF status = CURED
              THEN release_patient_resources_counters(
                      [s EXCEPT !.just_saved_a_patient = TRUE,
                                !.patients_saved = s.patients_saved + 1],
                      had_bed, had_nurse, had_vent)
              ELSE IF status = LOST
              THEN release_patient_resources_counters(
                      [s EXCEPT !.just_lost_a_patient = TRUE,
                                !.patients_lost = s.patients_lost + 1],
                      had_bed, had_nurse, had_vent)
              ELSE s
    IN IF status = WAITING
       THEN [s1 EXCEPT !.total_wait_time = s1.total_wait_time + 1]
       ELSE s1

\* what update_tick's loop does after patient.update(): s is the engine after
\* the update of patient k, the other arguments what was noted before it
Tally(s, k, prev_status, had_bed, had_nurse, had_vent) ==
    LET status == s.patients[k].status
        s1 == IF prev_status # CURED /\ status = CURED
              THEN release_patient_resources_counters(
                      [s EXCEPT !.just_saved_a_patient = TRUE,
                                !.patients_saved = s.patients_saved + 1],
                      had_bed, had_nurse, had_vent)
              ELSE IF prev_status # LOST /\ status = LOST
              THEN release_patient_resources_counters(
                      [s EXCEPT !.just_lost_a_patient = TRUE,
                                !.patients_lost = s.patients_lost + 1],
                      had_bed, had_nurse, had_vent)
              ELSE s
    IN IF status = WAITING
       THEN [s1 EXCEPT !.total_wait_time = s1.total_wait_time + 1]
       ELSE s1

\* one round of update_tick's loop, for the patient at position k
UpdateOne(s, k, short) ==
    Tally(PatientUpdate(s, k, short), k,
          s.patients[k].status,
          s.patients[k].assigned_bed # None,
          s.patients[k].assigned_nurse # None,
          s.patients[k].assigned_ventilator # None)

\* update_tick's loop from position k on; f[j] is the rounding outcome for
\* the patient at position j
RECURSIVE UpdateLoop(_, _, _)
UpdateLoop(s, k, f) ==
    IF k > Len(s.patients) THEN s ELSE UpdateLoop(UpdateOne(s, k, f[k]), k + 1, f)

\* mutant: the arrival is tested before the tick is incremented
TickAndArrival_ArrivalFirst(s, initial_severity, gap) ==
    LET t == Arrival(s, initial_severity, gap) IN
    [t EXCEPT !.tick = s.tick + 1,
              !.just_saved_a_patient = FALSE,
              !.just_lost_a_patient = FALSE,
              !.just_incurred_setup_delay = FALSE]

\* update_tick up to the loop
TickAndArrival(s, initial_severity, gap) ==
    Arrival([s EXCEPT !.tick = s.tick + 1,
                      !.just_saved_a_patient = FALSE,
                      !.just_lost_a_patient = FALSE,
                      !.just_incurred_setup_delay = FALSE],
            initial_severity, gap)

\* SimICU.update_tick
update_tick(s, initial_severity, gap, f) ==
    UpdateLoop(TickAndArrival(s, initial_severity, gap), 1, f)

\* mutant: the counters are reset, the nurses' available flags are not
reset_NursesKept(s, gap) ==
    [s EXCEPT !.patients = << >>,
              !.next_patient_id = 0,
              !.tick = 0,
              !.patients_saved = 0,
              !.patients_lost = 0,
              !.total_wait_time = 0,
              !.next_arrival = gap,
              !.free_beds = s.num_beds,
              !.free_nurses = s.num_nurses,
              !.free_vents = s.num_ventilators,
              !.beds = [b \in DOMAIN s.beds |-> TRUE],
              !.ventilators = [v \in DOMAIN s.ventilators |-> TRUE]]

\* SimICU.reset; gap is the draw of np.random.exponential
reset(s, gap) ==
    [s EXCEPT !.patients = << >>,
              !.next_patient_id = 0,
              !.tick = 0,
              !.patients_saved = 0,
              !.patients_lost = 0,
              !.total_wait_time = 0,
              !.next_arrival = gap,
              !.free_beds = s.num_beds,
              !.free_nurses = s.num_nurses,
              !.free_vents = s.num_ventilators,
              !.nurses = [n \in DOMAIN s.nurses |-> TRUE],
              !.beds = [b \in DOMAIN s.beds |-> TRUE],
              !.ventilators = [v \in DOMAIN s.ventilators |-> TRUE]]

\* the terms of a step's reward, in thousandths, before any step has run
NoReward ==
    [ calculate_reward |-> 0, step_penalty |-> 0, delta_severity |-> 0,
      setup_delay |-> 0, idle |-> 0 ]

----------------------------------------------------------------------------
(* The engine's operations as steps *)

\* the decision source (a front-end or step) acts between two ticks
DecisionTime == tick \in {FirstDecisionTick, SecondDecisionTick}

\* the engine becomes s
Becomes(s) ==
    /\ num_nurses' = s.num_nurses
    /\ num_beds' = s.num_beds
    /\ num_ventilators' = s.num_ventilators
    /\ patients' = s.patients
    /\ nurses' = s.nurses
    /\ beds' = s.beds
    /\ ventilators' = s.ventilators
    /\ next_patient_id' = s.next_patient_id
    /\ tick' = s.tick
    /\ patients_saved' = s.patients_saved
    /\ patients_lost' = s.patients_lost
    /\ total_wait_time' = s.total_wait_time
    /\ next_arrival' = s.next_arrival
    /\ just_saved_a_patient' = s.just_saved_a_patient
    /\ just_lost_a_patient' = s.just_lost_a_patient
    /\ just_incurred_setup_delay' = s.just_incurred_setup_delay
    /\ free_beds' = s.free_beds
    /\ free_nurses' = s.free_nurses
    /\ free_vents' = s.free_vents

\* an operation of the engine named op has been called with outcome r
Called(op, r) ==
    /\ call' = op
    /\ ret' = r.ok
    /\ Becomes(r.s)
    /\ UNCHANGED << action, reward, terminated, truncated, observation, info,
                    max_ticks, seed, np_random >>
    /\ UNCHANGED front

PerformAction ==
    /\ DecisionTime
    /\ \E patient_id \in PatientIds, action_type \in ActionTypes :
        Called("perform_action", perform_action(Engine, patient_id, action_type))

AssignPatientToBed ==
    /\ DecisionTime
    /\ \E k \in 1 .. Len(patients) :
        Called("assign_patient_to_bed", assign_patient_to_bed(Engine, k))

AssignPatientToSpecificBed ==
    /\ DecisionTime
    /\ \E k \in 1 .. Len(patients), bed \in BedIds \cup {None},
          nurse \in NurseIds \cup {None} :
        Called("assign_patient_to_specific_bed",
               assign_patient_to_specific_bed(Engine, k, bed, nurse))

AssignPatientToVentilator ==
    /\ DecisionTime
    /\ \E k \in 1 .. Len(patients) :
        Called("assign_patient_to_ventilator", assign_patient_to_ventilator(Engine, k))

\* the draws one update_tick can make: none when no patient arrives; and no
\* more than MaxPatients arrivals within the ticks explored
ArrivalDue == tick + 1 >= next_arrival

Draws ==
    IF ArrivalDue
    THEN {d \in InitialSeverities \X ArrivalGaps :
            Len(patients) + 1 >= MaxPatients => d[2] = FarGap}
    ELSE {<< InitialSeverityLow, 0 >>}

UpdateTick ==
    /\ tick < MaxTick
    /\ ArrivalDue => Len(patients) < MaxPatients
    /\ \E d \in Draws :
        LET s == TickAndArrival(Engine, d[1], d[2]) IN
        \E f \in Roundings(s.patients) :
            Called("update_tick", Outcome(TRUE, UpdateLoop(s, 1, f)))

Reset ==
    \E gap \in ArrivalGaps : Called("reset", Outcome(TRUE, reset(Engine, gap)))

\* a Patient object: the episode it was created in and its id
PatientRef(e, id) == [episode |-> e, id |-> id]
\* selected_patient = None
NoPatient == PatientRef(None, None)
\* deferred_action = None
NoAction == << >>

\* the front-end state after construction (retro_mode.py:51, 123-124;
\* modern_mode.py:87-97)
FrontInit ==
    /\ pending_assignments = << >>
    /\ selected_patient = NoPatient
    /\ input_cooldown_ticks = 0
    /\ deferred_action = NoAction
    /\ ready_to_apply_deferred = FALSE
    /\ patient_moves = {}
    /\ episode = 0
    /\ dropped = << >>

\* SimICU.__init__, which ends in reset()
Init ==
    /\ num_nurses = NumNurses
    /\ num_beds = NumBeds
    /\ num_ventilators = NumVents
    /\ patients = << >>
    /\ next_patient_id = 0
    /\ tick = 0
    /\ patients_saved = 0
    /\ patients_lost = 0
    /\ total_wait_time = 0
    /\ next_arrival \in ArrivalGaps
    /\ just_saved_a_patient = FALSE
    /\ just_lost_a_patient = FALSE
    /\ just_incurred_setup_delay = FALSE
    /\ free_beds = NumBeds
    /\ free_nurses = NumNurses
    /\ free_vents = NumVents
    /\ nurses = [n \in NurseIds |-> TRUE]
    /\ beds = [b \in BedIds |-> TRUE]
    /\ ventilators = [v \in VentIds |-> TRUE]
    /\ call = "init"
    /\ ret = TRUE
    /\ action = << 0, NO_OP >>
    /\ reward = NoReward
    /\ terminated = FALSE
    /\ truncated = FALSE
    /\ observation = None
    /\ info = None
    /\ seed = None
    /\ np_random = << >>
    /\ FrontInit
    /\ max_ticks = EnvMaxTicks

Next ==
    \/ PerformAction
    \/ AssignPatientToBed
    \/ AssignPatientToSpecificBed
    \/ AssignPatientToVentilator
    \/ UpdateTick
    \/ Reset

Spec == Init /\ [][Next]_vars

----------------------------------------------------------------------------
(* SimICUEnv: reset and step.  Rewards are in thousandths; the rounding of *)
(* the float sums is left out.  The observation step returns is not part   *)
(* of the state here.                                                      *)

\* draws of np.random.exponential the environment's runs follow: an arrival
\* on the next tick, one right after the ticks reset runs, or none
EnvArrivalGaps == {0, PreTicks + 1, FarGap}

\* the decisions handed to step at tick t
Slots == 0 .. max_patients - 1
Decisions(t) ==
    IF t < PreTicks + EarlySteps \/ t = LateDecisionTick
    THEN Slots \X {ADMIT_BED, ADMIT_VENTILATOR, NO_OP}
    ELSE {<< 0, NO_OP >>}

\* the draws one update_tick on s can make, the gaps taken from gaps; no more
\* than MaxPatients arrivals within the ticks explored
DrawsFor(s, gaps) ==
    IF s.tick + 1 >= s.next_arrival
    THEN {d \in InitialSeverities \X gaps :
            Len(s.patients) + 1 >= MaxPatients => d[2] = FarGap}
    ELSE {<< InitialSeverityLow, 0 >>}

\* the engines one update_tick can leave
Ticked(s, gaps) ==
    UNION {{UpdateLoop(t, 1, f) : f \in Roundings(t.patients)} :
            t \in {TickAndArrival(s, d[1], d[2]) : d \in DrawsFor(s, gaps)}}

RECURSIVE AfterTicks(_, _, _)
AfterTicks(S, n, gaps) ==
    IF n = 0 THEN S ELSE AfterTicks(UNION {Ticked(s, gaps) : s \in S}, n - 1, gaps)

\* SimICUEnv.reset: the engines it can leave
env_reset(s, gaps) == AfterTicks({reset(s, gap) : gap \in gaps}, PreTicks, gaps)

\* sum(p.severity for p in patients if p.status in statuses), in tenths
RECURSIVE TotalSeverity(_, _)
TotalSeverity(ps, statuses) ==
    IF ps = << >> THEN 0
    ELSE (IF Head(ps).status \in statuses THEN Head(ps).severity ELSE 0)
         + TotalSeverity(Tail(ps), statuses)

NotOver == {WAITING, IN_BED, ON_VENTILATOR, PENDING_DISCHARGE}

\* SimICU.total_waiting_patients
total_waiting_patients(s) ==
    Cardinality({k \in 1 .. Len(s.patients) : s.patients[k].status = WAITING})

\* the patients _calculate_reward counts as treated, in a bed and on a ventilator
TreatedInBed(s) ==
    {k \in 1 .. Len(s.patients) :
        /\ s.patients[k].status = IN_BED
        /\ s.patients[k].bed_setup_ticks <= 0
        /\ s.patients[k].assigned_nurse # None}

TreatedOnVentilator(s) ==
    {k \in 1 .. Len(s.patients) :
        /\ s.patients[k].status = ON_VENTILATOR
        /\ s.patients[k].vent_setup_ticks <= 0
        /\ s.patients[k].assigned_nurse # None}

\* the archetype-aware terms of _calculate_reward
ArchetypeShaping(s) ==
    300 * Cardinality({k \in TreatedOnVentilator(s) :
                        patient_type(s.patients[k]) = RESPIRATORY})
    - 300 * Cardinality({k \in TreatedOnVentilator(s) :
                          patient_type(s.patients[k]) # RESPIRATORY})
    + 200 * Cardinality({k \in TreatedInBed(s) :
                          patient_type(s.patients[k]) = CARDIAC})

\* SimICUEnv._calculate_reward
calculate_reward(s) ==
    LET treated == Cardinality(TreatedInBed(s)) + Cardinality(TreatedOnVentilator(s))
        waiting == total_waiting_patients(s)
        pending == Cardinality({k \in 1 .. Len(s.patients) :
                                  s.patients[k].status = PENDING_DISCHARGE})
        nurses_in_use == s.num_nurses - s.free_nurses
    IN (IF s.just_saved_a_patient THEN 100000 ELSE 0)
       - (IF s.just_lost_a_patient THEN 100000 ELSE 0)
       + 800 * treated
       - 150 * waiting
       - TotalSeverity(s.patients, {WAITING})
       - 100 * pending
       - 50 * (pending * pending)
       + ArchetypeShaping(s)
       - 200 * nurses_in_use

\* SimICU.get_score
get_score(s) ==
    [ patients_saved |-> s.patients_saved,
      patients_lost |-> s.patients_lost,
      total_wait_time |-> s.total_wait_time,
      tick |-> s.tick,
      active_patients |->
          Cardinality({k \in 1 .. Len(s.patients) :
                          s.patients[k].status \notin {CURED, LOST}}) ]

\* a component of the observation, as the quotient the code computes
Frac(n, d) == [num |-> n, den |-> d]

\* SimICUEnv._encode_status and _encode_type
encode_status(status) ==
    IF status = WAITING THEN 0
    ELSE IF status = IN_BED THEN 1
    ELSE IF status = ON_VENTILATOR THEN 2
    ELSE IF status \in {PENDING_DISCHARGE, CURED} THEN 3
    ELSE IF status = LOST THEN 4
    ELSE 0

encode_type(t) ==
    IF t = RESPIRATORY THEN Frac(0, 2)
    ELSE IF t = CARDIAC THEN Frac(1, 2)
    ELSE IF t = TRAUMA THEN Frac(2, 2)
    ELSE Frac(0, 2)

\* x / max if max > 0 else 0.0
FreeFraction(x, max) == IF max > 0 THEN Frac(x, max) ELSE Frac(0, 1)

\* SimICUEnv._get_state: the slots of the first max_patients patients, padded,
\* and the five global components; severity is in tenths, so that
\* severity / 100 is s.patients[k].severity over MaxSeverity.  The engine has
\* no step-down beds: getattr gives 0 free of 1.
get_state(s) ==
    [ slots |->
        [i \in Slots |->
            IF i < Len(s.patients)
            THEN LET patient == s.patients[i + 1] IN
                 [ severity |-> Frac(patient.severity, MaxSeverity),
                   time_waiting |-> Frac(patient.time_waiting, max_ticks),
                   status |-> Frac(encode_status(patient.status), 4),
                   type |-> encode_type(patient_type(patient)) ]
            ELSE [ severity |-> Frac(0, 1),
                   time_waiting |-> Frac(0, 1),
                   status |-> Frac(1, 1),
                   type |-> Frac(0, 1) ]],
      free_beds |-> FreeFraction(s.free_beds, s.num_beds),
      free_nurses |-> FreeFraction(s.free_nurses, s.num_nurses),
      free_vents |-> FreeFraction(s.free_vents, s.num_ventilators),
      free_step_down |-> Frac(0, 1),
      tick |-> Frac(s.tick, max_ticks) ]

\* the info step returns
Info(s) ==
    [ patients_saved |-> s.patients_saved,
      patients_lost |-> s.patients_lost,
      score |-> get_score(s) ]

\* mutant: the slot counts the patients that are neither CURED nor LOST
Validate_ActiveSlots(s, patient_slot_id, action_type) ==
    LET active == {j \in 1 .. Len(s.patients) :
                        s.patients[j].status \notin {CURED, LOST}}
        in_range == patient_slot_id < Cardinality(active)
        k == IF in_range
             THEN CHOOSE j \in active :
                    Cardinality({i \in active : i < j}) = patient_slot_id
             ELSE 0
        starved ==
            /\ in_range
            /\ \/ action_type = 0 /\ (s.free_beds = 0 \/ s.free_nurses = 0)
               \/ action_type = 1 /\ (s.free_vents = 0 \/ s.free_nurses < 2)
    IN [ patient |-> IF in_range /\ ~ starved THEN k ELSE 0,
         step_penalty |-> IF starved THEN - NoResourcePenalty
                          ELSE IF in_range THEN 0
                          ELSE - InvalidTargetPenalty ]

\* step, 1) Validate action: the position of the patient the decision is
\* applied to (0 for patient = None) and step_penalty
Validate(s, patient_slot_id, action_type) ==
    LET in_range == patient_slot_id < Len(s.patients)
        k == patient_slot_id + 1
        over == in_range /\ s.patients[k].status \in {CURED, LOST, PENDING_DISCHARGE}
        live == in_range /\ ~ over
        starved ==
            /\ live
            /\ \/ action_type = 0 /\ (s.free_beds = 0 \/ s.free_nurses = 0)
               \/ action_type = 1 /\ (s.free_vents = 0 \/ s.free_nurses < 2)
    IN [ patient |-> IF live /\ ~ starved THEN k ELSE 0,
         step_penalty |-> IF starved THEN - NoResourcePenalty
                          ELSE IF live THEN 0
                          ELSE - InvalidTargetPenalty ]

\* step, 2) Apply immediately; v is what the validation left
Decide(s, v, action_type) ==
    IF v.patient # 0 /\ action_type # 2
    THEN perform_action(s, s.patients[v.patient].id, action_type).s
    ELSE s

\* step, 4): the terms of the reward; s is the engine before the step and t
\* the engine after it
Reward(s, t, step_penalty, action_type) ==
    [ calculate_reward |-> calculate_reward(t),
      step_penalty |-> step_penalty,
      delta_severity |->
          10 * (TotalSeverity(t.patients, NotOver) - TotalSeverity(s.patients, NotOver)),
      setup_delay |-> IF t.just_incurred_setup_delay THEN - SetupDelayPenalty ELSE 0,
      idle |-> IF /\ action_type = 2
                  /\ total_waiting_patients(t) > 0
                  /\ t.free_nurses > 0
               THEN - IdlePenalty ELSE 0 ]

\* mutant: the time limit tested with >
is_game_over_Strict(s, limit) == s.tick > limit

\* SimICU.is_game_over
is_game_over(s, limit) == s.tick >= limit

\* mutant: a decision that fails the validation ends the step at once
step_RejectedSkipsTick(s, patient_slot_id, action_type, initial_severity, gap, f) ==
    LET v == Validate(s, patient_slot_id, action_type)
        t == IF v.patient = 0 /\ action_type # 2
             THEN s
             ELSE update_tick(Decide(s, v, action_type), initial_severity, gap, f)
    IN [ s |-> t,
         reward |-> Reward(s, t, v.step_penalty, action_type),
         terminated |-> is_game_over(t, max_ticks),
         truncated |-> FALSE,
         observation |-> get_state(t),
         info |-> Info(t) ]

\* mutant: reading the score clears the wait total
step_ScoreClearsWaitTime(s, patient_slot_id, action_type, initial_severity, gap, f) ==
    LET v == Validate(s, patient_slot_id, action_type)
        t == update_tick(Decide(s, v, action_type), initial_severity, gap, f)
    IN [ s |-> [t EXCEPT !.total_wait_time = 0],
         reward |-> Reward(s, t, v.step_penalty, action_type),
         terminated |-> is_game_over(t, max_ticks),
         truncated |-> FALSE,
         observation |-> get_state(t),
         info |-> Info(t) ]

\* SimICUEnv.step: the engine it leaves, the reward and the terminated flag;
\* initial_severity, gap and f are the draws and roundings of its update_tick
step(s, patient_slot_id, action_type, initial_severity, gap, f) ==
    LET v == Validate(s, patient_slot_id, action_type)
        t == update_tick(Decide(s, v, action_type), initial_severity, gap, f)
    IN [ s |-> t,
         reward |-> Reward(s, t, v.step_penalty, action_type),
         terminated |-> is_game_over(t, max_ticks),
         truncated |-> FALSE,
         observation |-> get_state(t),
         info |-> Info(t) ]

\* step has been called with decision a and outcome r
Stepped(a, r) ==
    /\ call' = "step"
    /\ ret' = TRUE
    /\ action' = a
    /\ reward' = r.reward
    /\ terminated' = r.terminated
    /\ truncated' = r.truncated
    /\ observation' = r.observation
    /\ info' = r.info
    /\ Becomes(r.s)
    /\ UNCHANGED max_ticks

\* a step of an episode: after a reset, until terminated is reported
Step ==
    /\ call = "env_reset" \/ (call = "step" /\ ~ terminated)
    /\ \E a \in Decisions(tick) :
        LET s1 == Decide(Engine, Validate(Engine, a[1], a[2]), a[2]) IN
        \E d \in DrawsFor(s1, EnvArrivalGaps) :
            \E f \in Roundings(TickAndArrival(s1, d[1], d[2]).patients) :
                /\ Stepped(a, step(Engine, a[1], a[2], d[1], d[2], f))
                /\ UNCHANGED << seed, np_random >>
                /\ UNCHANGED front

\* an episode is started by reset, before the first step and again once a
\* step has reported terminated; what a reset leaves does not depend on how
\* far the episode before it got
EnvReset ==
    /\ call = "init" \/ terminated
    /\ \E s \in env_reset(Engine, EnvArrivalGaps) :
        /\ call' = "env_reset"
        /\ ret' = TRUE
        /\ Becomes(s)
        /\ observation' = get_state(s)
        /\ info' = << >>
        /\ UNCHANGED << action, reward, terminated, truncated, max_ticks,
                        seed, np_random >>
        /\ UNCHANGED front

\* SimICUEnv.__init__
EnvInit ==
    /\ num_nurses = EnvNumNurses
    /\ num_beds = EnvNumBeds
    /\ num_ventilators = EnvNumVents
    /\ patients = << >>
    /\ next_patient_id = 0
    /\ tick = 0
    /\ patients_saved = 0
    /\ patients_lost = 0
    /\ total_wait_time = 0
    /\ next_arrival \in EnvArrivalGaps
    /\ just_saved_a_patient = FALSE
    /\ just_lost_a_patient = FALSE
    /\ just_incurred_setup_delay = FALSE
    /\ free_beds = EnvNumBeds
    /\ free_nurses = EnvNumNurses
    /\ free_vents = EnvNumVents
    /\ nurses = [n \in 0 .. EnvNumNurses - 1 |-> TRUE]
    /\ beds = [b \in 0 .. EnvNumBeds - 1 |-> TRUE]
    /\ ventilators = [v \in 0 .. EnvNumVents - 1 |-> TRUE]
    /\ call = "init"
    /\ ret = TRUE
    /\ action = << 0, NO_OP >>
    /\ reward = NoReward
    /\ terminated = FALSE
    /\ truncated = FALSE
    /\ observation = None
    /\ info = None
    /\ seed = None
    /\ np_random = << >>
    /\ FrontInit
    /\ max_ticks \in {ShortMaxTicks, EnvMaxTicks}

EnvNext ==
    \/ EnvReset
    \/ Step

EnvSpec == EnvInit /\ [][EnvNext]_vars

----------------------------------------------------------------------------
(* Seeded episodes.  reset(seed) calls np.random.seed(seed), which fixes   *)
(* every later draw of np.random.exponential; a seed is identified here    *)
(* with the stream of draws it gives.  reset does not seed the generator   *)
(* of the random module, from which add_patient draws the initial          *)
(* severity: those draws stay free.                                        *)

\* draws made in one episode: one by game.reset() and one for each arrival
MaxDraws == MaxPatients + 1

\* the streams followed; the draw made at the last arrival explored puts the
\* next one beyond the episode
Seeds ==
    {st \in [1 .. MaxDraws -> EnvArrivalGaps] : st[MaxDraws] = FarGap}

\* one update_tick of a seeded environment: the engine it leaves and the
\* generator, from which the gap is drawn when a patient arrives
seeded_tick(s, rng, initial_severity, f) ==
    IF s.tick + 1 >= s.next_arrival
    THEN [s |-> update_tick(s, initial_severity, Head(rng), f), rng |-> Tail(rng)]
    ELSE [s |-> update_tick(s, initial_severity, 0, f), rng |-> rng]

\* the initial severities add_patient can draw in an update_tick on s
SeededSeverities(s) ==
    IF s.tick + 1 >= s.next_arrival THEN InitialSeverities ELSE {InitialSeverityLow}

\* the gap an update_tick on s draws from the generator when a patient arrives
SeededGap(s, rng) == IF s.tick + 1 >= s.next_arrival THEN Head(rng) ELSE 0

\* the outcomes one update_tick can have, over the initial severities and
\* the roundings
SeededTicked(x) ==
    UNION {{seeded_tick(x.s, x.rng, initial_severity, f) :
              f \in Roundings(TickAndArrival(x.s, initial_severity,
                                             SeededGap(x.s, x.rng)).patients)} :
           initial_severity \in SeededSeverities(x.s)}

RECURSIVE SeededAfterTicks(_, _)
SeededAfterTicks(X, n) ==
    IF n = 0 THEN X ELSE SeededAfterTicks(UNION {SeededTicked(x) : x \in X}, n - 1)

\* SimICUEnv.reset(seed): the engines and generators it can leave
seeded_reset(s, st) ==
    SeededAfterTicks({[s |-> reset(s, st[1]), rng |-> Tail(st)]}, PreTicks)

\* mutant: an admission that is applied takes the place of the arrival due
\* in its tick, which comes one tick later
seeded_step_AdmissionHoldsArrival(s, rng, patient_slot_id, action_type, initial_severity, f) ==
    LET applied == Decide(s, Validate(s, patient_slot_id, action_type), action_type) # s
        s1 == IF applied THEN [s EXCEPT !.next_arrival = s.next_arrival + 1] ELSE s
        due == s1.tick + 1 >= s1.next_arrival
    IN [ out |-> step(s1, patient_slot_id, action_type, initial_severity,
                      IF due THEN Head(rng) ELSE 0, f),
         rng |-> IF due THEN Tail(rng) ELSE rng ]

\* SimICUEnv.step of a seeded environment
seeded_step(s, rng, patient_slot_id, action_type, initial_severity, f) ==
    LET due == s.tick + 1 >= s.next_arrival IN
    [ out |-> step(s, patient_slot_id, action_type, initial_severity,
                   IF due THEN Head(rng) ELSE 0, f),
      rng |-> IF due THEN Tail(rng) ELSE rng ]

\* a seeded environment runs one episode: it is reset once, after
\* construction
SeededReset ==
    /\ call = "init"
    /\ \E st \in Seeds :
        \E x \in seeded_reset(Engine, st) :
            /\ call' = "env_reset"
            /\ ret' = TRUE
            /\ seed' = st
            /\ np_random' = x.rng
            /\ Becomes(x.s)
            /\ observation' = get_state(x.s)
            /\ info' = << >>
            /\ UNCHANGED << action, reward, terminated, truncated, max_ticks >>
            /\ UNCHANGED front

SeededStep ==
    /\ call = "env_reset" \/ (call = "step" /\ ~ terminated)
    /\ \E a \in Slots \X {ADMIT_BED, ADMIT_VENTILATOR, NO_OP} :
        LET s1 == Decide(Engine, Validate(Engine, a[1], a[2]), a[2]) IN
        \E initial_severity \in SeededSeverities(s1) :
            \E f \in Roundings(TickAndArrival(s1, initial_severity,
                                               SeededGap(s1, np_random)).patients) :
                LET r == seeded_step(Engine, np_random, a[1], a[2],
                                     initial_severity, f) IN
                /\ Stepped(a, r.out)
                /\ np_random' = r.rng
                /\ UNCHANGED seed
                /\ UNCHANGED front

\* SimICUEnv.__init__
SeededInit ==
    /\ num_nurses = EnvNumNurses
    /\ num_beds = EnvNumBeds
    /\ num_ventilators = EnvNumVents
    /\ patients = << >>
    /\ next_patient_id = 0
    /\ tick = 0
    /\ patients_saved = 0
    /\ patients_lost = 0
    /\ total_wait_time = 0
    /\ next_arrival \in EnvArrivalGaps
    /\ just_saved_a_patient = FALSE
    /\ just_lost_a_patient = FALSE
    /\ just_incurred_setup_delay = FALSE
    /\ free_beds = EnvNumBeds
    /\ free_nurses = EnvNumNurses
    /\ free_vents = EnvNumVents
    /\ nurses = [n \in 0 .. EnvNumNurses - 1 |-> TRUE]
    /\ beds = [b \in 0 .. EnvNumBeds - 1 |-> TRUE]
    /\ ventilators = [v \in 0 .. EnvNumVents - 1 |-> TRUE]
    /\ call = "init"
    /\ ret = TRUE
    /\ action = << 0, NO_OP >>
    /\ reward = NoReward
    /\ terminated = FALSE
    /\ truncated = FALSE
    /\ observation = None
    /\ info = None
    /\ max_ticks = SeededMaxTicks
    /\ seed = None
    /\ np_random = << >>
    /\ FrontInit

SeededNext ==
    \/ SeededReset
    \/ SeededStep

SeededSpec == SeededInit /\ [][SeededNext]_vars

----------------------------------------------------------------------------
(* Runs that leave a patient waiting: a front-end creates a patient with   *)
(* add_patient(initial_severity) at any condition, may create others and   *)
(* give them beds, and then lets the ticks run; no patient arrives by      *)
(* itself within the ticks explored.                                       *)

\* every condition a patient can be created at
AnyInitialSeverity == MinSeverity \div Scale .. MaxSeverity \div Scale

AddPatient ==
    /\ tick = 0
    /\ Len(patients) < MaxPatients
    /\ \E initial_severity \in IF patients = << >> THEN AnyInitialSeverity
                                ELSE InitialSeverities :
        Called("add_patient", Outcome(TRUE, add_patient(Engine, initial_severity)))

\* the patients after the first one may be given a bed
AssignCompanionToBed ==
    /\ tick = 0
    /\ \E k \in 2 .. Len(patients) :
        Called("assign_patient_to_bed", assign_patient_to_bed(Engine, k))

WaitTick ==
    /\ tick < WaitHorizon
    /\ \E k \in 1 .. Len(patients) : patients[k].status \notin {CURED, LOST}
    /\ LET s == TickAndArrival(Engine, InitialSeverityLow, 0) IN
        \E f \in Roundings(s.patients) :
            Called("update_tick", Outcome(TRUE, UpdateLoop(s, 1, f)))

\* SimICU.__init__ with a first arrival drawn beyond the ticks explored
WaitInit ==
    /\ num_nurses = NumNurses
    /\ num_beds = NumBeds
    /\ num_ventilators = NumVents
    /\ patients = << >>
    /\ next_patient_id = 0
    /\ tick = 0
    /\ patients_saved = 0
    /\ patients_lost = 0
    /\ total_wait_time = 0
    /\ next_arrival = WaitHorizon + 1
    /\ just_saved_a_patient = FALSE
    /\ just_lost_a_patient = FALSE
    /\ just_incurred_setup_delay = FALSE
    /\ free_beds = NumBeds
    /\ free_nurses = NumNurses
    /\ free_vents = NumVents
    /\ nurses = [n \in NurseIds |-> TRUE]
    /\ beds = [b \in BedIds |-> TRUE]
    /\ ventilators = [v \in VentIds |-> TRUE]
    /\ call = "init"
    /\ ret = TRUE
    /\ action = << 0, NO_OP >>
    /\ reward = NoReward
    /\ terminated = FALSE
    /\ truncated = FALSE
    /\ observation = None
    /\ info = None
    /\ seed = None
    /\ np_random = << >>
    /\ FrontInit
    /\ max_ticks = EnvMaxTicks

WaitNext ==
    \/ AddPatient
    \/ AssignCompanionToBed
    \/ WaitTick

WaitSpec == WaitInit /\ [][WaitNext]_vars

----------------------------------------------------------------------------
(* Vocabulary of the properties *)

Terminal == {CURED, LOST}
AssignmentOps == {"perform_action", "assign_patient_to_bed",
                  "assign_patient_to_specific_bed", "assign_patient_to_ventilator"}

Positions == 1 .. Len(patients)
Available(pool) == Cardinality({r \in DOMAIN pool : pool[r]})
Holders(ps, field, r) == {k \in 1 .. Len(ps) : ps[k][field] = r}
HoldsNothing(p) ==
    p.assigned_bed = None /\ p.assigned_nurse = None /\ p.assigned_ventilator = None

\* the patient at position k before and after a step that is not a reset
Kept(k) == k \in Positions /\ k <= Len(patients') /\ call' # "reset"
BecomesTerminal(k) ==
    Kept(k) /\ patients[k].status \notin Terminal /\ patients'[k].status \in Terminal
\* the resources of one kind held by the patients that become terminal in a step
ReleasedInStep(field) ==
    Cardinality({k \in Positions : BecomesTerminal(k) /\ patients[k][field] # None})

----------------------------------------------------------------------------
(* C1: in every reachable state each cached counter equals the number of   *)
(* available resources of its pool and lies between 0 and the pool size.   *)
C1_CountersMatchPools ==
    /\ free_beds = Available(beds)
    /\ free_nurses = Available(nurses)
    /\ free_vents = Available(ventilators)
    /\ free_beds \in 0 .. NumBeds
    /\ free_nurses \in 0 .. NumNurses
    /\ free_vents \in 0 .. NumVents

\* a patient was cured, its resources were released, and another patient has
\* been given the nurse and a ventilator since
C1_Witness ==
    /\ patients_saved >= 1
    /\ free_nurses = 0
    /\ free_vents < NumVents
    /\ call \in AssignmentOps /\ ret

(* C2: a bed, nurse or ventilator is unavailable iff exactly one patient of *)
(* the list records it; no resource is recorded by two patients and no      *)
(* patient records a resource whose available flag is set.                  *)
C2_PoolMatchesHolders(pool, field) ==
    /\ \A r \in DOMAIN pool :
        /\ ~ pool[r] <=> Cardinality(Holders(patients, field, r)) = 1
        /\ Cardinality(Holders(patients, field, r)) <= 1
    /\ \A k \in Positions :
        patients[k][field] # None =>
            patients[k][field] \in DOMAIN pool /\ ~ pool[patients[k][field]]

C3_AdmitBedAllOrNothing ==
    /\ \A k \in Positions :
        patients[k].status = WAITING /\ (free_beds = 0 \/ free_nurses = 0) =>
            perform_action(Engine, patients[k].id, ADMIT_BED) = Outcome(FALSE, Engine)
    /\ \A k \in Positions :
        patients[k].assigned_bed = None <=> patients[k].assigned_nurse = None
    /\ NumBeds - Available(beds) = NumNurses - Available(nurses)

\* a call of perform_action has just failed while a patient waits and no
\* nurse is free
C3_Witness ==
    /\ call = "perform_action" /\ ~ ret
    /\ free_nurses = 0 /\ free_beds > 0
    /\ \E k \in Positions : patients[k].status = WAITING

(* C4: ADMIT_VENTILATOR on a WAITING patient is all-or-nothing: with a     *)
(* ventilator free but no bed or no nurse free it fails and reserves       *)
(* nothing, the patient stays WAITING; when it succeeds the patient holds  *)
(* one bed, one nurse and one ventilator, each free before and reserved    *)
(* after, and each counter dropped by exactly 1.                           *)
C4_Outcome(k, r) ==
    /\ free_vents > 0 /\ (free_beds = 0 \/ free_nurses = 0) =>
        r = Outcome(FALSE, Engine)
    /\ ~ r.ok =>
        /\ r.s.patients = patients
        /\ r.s.beds = beds /\ r.s.nurses = nurses /\ r.s.ventilators = ventilators
        /\ r.s.free_beds = free_beds
        /\ r.s.free_nurses = free_nurses
        /\ r.s.free_vents = free_vents
    /\ r.ok =>
        LET q == r.s.patients[k] IN
        /\ q.status = ON_VENTILATOR
        /\ q.assigned_bed \in BedIds
        /\ q.assigned_nurse \in NurseIds
        /\ q.assigned_ventilator \in VentIds
        /\ beds[q.assigned_bed] /\ ~ r.s.beds[q.assigned_bed]
        /\ nurses[q.assigned_nurse] /\ ~ r.s.nurses[q.assigned_nurse]
        /\ ventilators[q.assigned_ventilator]
        /\ ~ r.s.ventilators[q.assigned_ventilator]
        /\ r.s.free_beds = free_beds - 1
        /\ r.s.free_nurses = free_nurses - 1
        /\ r.s.free_vents = free_vents - 1
        /\ Available(r.s.beds) = Available(beds) - 1
        /\ Available(r.s.nurses) = Available(nurses) - 1
        /\ Available(r.s.ventilators) = Available(ventilators) - 1

C4_AdmitVentilatorAllOrNothing ==
    \A k \in Positions :
        patients[k].status = WAITING =>
            /\ C4_Outcome(k, perform_action(Engine, patients[k].id, ADMIT_VENTILATOR))
            /\ C4_Outcome(k, assign_patient_to_ventilator(Engine, k))

\* a ventilator assignment has just failed for want of a nurse: a ventilator
\* and a bed are free, a patient waits, and nothing is half reserved
C4_Witness ==
    /\ call \in {"perform_action", "assign_patient_to_ventilator"} /\ ~ ret
    /\ free_vents > 0 /\ free_beds > 0 /\ free_nurses = 0
    /\ \E k \in Positions : patients[k].status = WAITING /\ HoldsNothing(patients[k])
    /\ \E k \in Positions : patients[k].status = IN_BED

(* C5: a CURED or LOST patient holds no bed, nurse or ventilator; in the   *)
(* update_tick in which a patient becomes terminal its three references    *)
(* are emptied, the resources it held are available again, and over that   *)
(* tick each counter rises by exactly the resources the patients that      *)
(* became terminal held.                                                    *)
C5_Step ==
    /\ \A k \in 1 .. Len(patients') :
        patients'[k].status \in Terminal => HoldsNothing(patients'[k])
    /\ \A k \in Positions :
        BecomesTerminal(k) =>
            /\ call' = "update_tick"
            /\ patients[k].assigned_bed # None => beds'[patients[k].assigned_bed]
            /\ patients[k].assigned_nurse # None => nurses'[patients[k].assigned_nurse]
            /\ patients[k].assigned_ventilator # None =>
                  ventilators'[patients[k].assigned_ventilator]
    /\ call' = "update_tick" =>
        /\ free_beds' = free_beds + ReleasedInStep("assigned_bed")
        /\ free_nurses' = free_nurses + ReleasedInStep("assigned_nurse")
        /\ free_vents' = free_vents + ReleasedInStep("assigned_ventilator")

C5_TerminalHoldsNothing == [][C5_Step]_vars

\* the tick in which a patient on a ventilator was cured has just run: all
\* resources are free again
C5_Witness ==
    /\ call = "update_tick" /\ just_saved_a_patient
    /\ \E k \in Positions :
        /\ patients[k].status = CURED
        \* too early for bed care alone to have cured it
        /\ tick * BedGain < MaxSeverity - InitialSeverityHigh * Scale
    /\ free_beds = NumBeds /\ free_nurses = NumNurses /\ free_vents = NumVents

(* C6: once a patient is CURED or LOST, no operation other than reset      *)
(* changes its status, condition, wait counter or assigned resources.      *)
C6_Step ==
    \A k \in Positions :
        patients[k].status \in Terminal /\ call' # "reset" =>
            /\ k <= Len(patients')
            /\ patients'[k].status = patients[k].status
            /\ patients'[k].severity = patients[k].severity
            /\ patients'[k].short = patients[k].short
            /\ patients'[k].time_waiting = patients[k].time_waiting
            /\ patients'[k].assigned_bed = patients[k].assigned_bed
            /\ patients'[k].assigned_nurse = patients[k].assigned_nurse
            /\ patients'[k].assigned_ventilator = patients[k].assigned_ventilator

C6_TerminalAbsorbing == [][C6_Step]_vars

\* a tick has run over a patient that was LOST before it, and one over a
\* patient that was CURED before it
C6_Witness ==
    /\ call = "update_tick"
    /\ ~ just_saved_a_patient /\ ~ just_lost_a_patient
    /\ patients_saved >= 1 /\ patients_lost >= 1

(* C7: the only status changes are WAITING -> IN_BED, WAITING ->           *)
(* ON_VENTILATOR and IN_BED -> ON_VENTILATOR, each by a successful          *)
(* assignment, and a change into CURED or LOST inside update_tick with the *)
(* condition at 100 or 0; nothing returns to WAITING and nothing goes from *)
(* ON_VENTILATOR to IN_BED.                                                 *)
C7_Assigned == call' \in AssignmentOps /\ ret' /\ tick' = tick

C7_Step ==
    \A k \in Positions :
        Kept(k) =>
            LET a == patients[k].status
                b == patients'[k].status
            IN \/ a = b
               \/ a = WAITING /\ b \in {IN_BED, ON_VENTILATOR} /\ C7_Assigned
               \/ a = IN_BED /\ b = ON_VENTILATOR /\ C7_Assigned
               \/ /\ a \notin Terminal /\ b = CURED
                  /\ call' = "update_tick" /\ tick' = tick + 1
                  /\ patients'[k].severity = MaxSeverity /\ ~ patients'[k].short
               \/ /\ a \notin Terminal /\ b = LOST
                  /\ call' = "update_tick" /\ tick' = tick + 1
                  /\ patients'[k].severity = MinSeverity

C7_StatusTransitions == [][C7_Step]_vars

\* a patient has gone WAITING -> IN_BED -> ON_VENTILATOR -> CURED and another
\* WAITING -> LOST
C7_Witness ==
    \E k, j \in Positions :
        /\ patients[k].status = CURED
        /\ patients[k].bed_setup_ticks = 0
        /\ patients[k].time_waiting > 1
        /\ patients[j].status = LOST

(* C8: every patient's condition is within [0, 100] in every reachable    *)
(* state.                                                                   *)
C8_ConditionInRange ==
    \A k \in Positions :
        patients[k].severity >= MinSeverity /\ patients[k].severity <= MaxSeverity

\* a gain has been cut at 100 and a loss at 0: a patient admitted after more
\* than WaitingBlock ticks of waiting is CURED, another one is LOST
C8_Witness ==
    \E k, j \in Positions :
        /\ patients[k].status = CURED /\ patients[k].severity = MaxSeverity
        /\ patients[k].time_waiting > WaitingBlock
        /\ patients[j].status = LOST /\ patients[j].severity = MinSeverity

(* C9: after every update_tick, a patient is CURED iff its condition is    *)
(* 100 and LOST iff its condition is 0.                                     *)
C9_StatusMatchesCondition ==
    call = "update_tick" =>
        \A k \in Positions :
            /\ patients[k].status = CURED <=>
                  (patients[k].severity = MaxSeverity /\ ~ patients[k].short)
            /\ patients[k].status = LOST <=> patients[k].severity = MinSeverity
            /\ ~ (patients[k].status = CURED /\ patients[k].status = LOST)

\* a tick has just made one patient LOST, at 0, while another one is CURED,
\* at 100
C9_Witness ==
    /\ call = "update_tick" /\ just_lost_a_patient
    /\ \E k, j \in Positions :
        /\ patients[k].status = CURED /\ patients[k].severity = MaxSeverity
        /\ patients[j].status = LOST /\ patients[j].severity = MinSeverity

(* C10: perform_action(id, 1) on an IN_BED patient while a ventilator is   *)
(* free succeeds, reserves exactly one ventilator, leaves the patient its  *)
(* bed and nurse and the bed and nurse pools as they were, sets the status *)
(* to ON_VENTILATOR with the ventilator countdown at 5 and leaves          *)
(* just_incurred_setup_delay set.                                           *)
C10_Escalation ==
    \A k \in Positions :
        patients[k].status = IN_BED /\ free_vents >= 1 =>
            LET r == perform_action(Engine, patients[k].id, ADMIT_VENTILATOR)
                q == r.s.patients[k]
            IN /\ r.ok
               /\ r.s.free_vents = free_vents - 1
               /\ Available(r.s.ventilators) = Available(ventilators) - 1
               /\ q.assigned_ventilator \in VentIds
               /\ ventilators[q.assigned_ventilator]
               /\ ~ r.s.ventilators[q.assigned_ventilator]
               /\ q.assigned_bed = patients[k].assigned_bed /\ q.assigned_bed # None
               /\ q.assigned_nurse = patients[k].assigned_nurse
               /\ q.assigned_nurse # None
               /\ r.s.beds = beds /\ r.s.nurses = nurses
               /\ r.s.free_beds = free_beds /\ r.s.free_nurses = free_nurses
               /\ q.status = ON_VENTILATOR
               /\ q.vent_setup_ticks = VentSetupTicks
               /\ q.severity = patients[k].severity
               /\ r.s.just_incurred_setup_delay
               /\ \A j \in Positions \ {k} : r.s.patients[j] = patients[j]

\* perform_action has just escalated a patient whose bed setup was over
C10_Witness ==
    /\ call = "perform_action" /\ ret /\ just_incurred_setup_delay
    /\ \E k \in Positions :
        /\ patients[k].status = ON_VENTILATOR
        /\ patients[k].vent_setup_ticks = VentSetupTicks
        /\ patients[k].bed_setup_ticks = 0
        /\ patients[k].assigned_bed # None /\ patients[k].assigned_nurse # None

----------------------------------------------------------------------------
(* Vocabulary of the properties about step *)

\* the position of the patient the last step's decision names, and its
\* action type
Slot == action[1] + 1
ActionType == action[2]
\* a step has just run on a decision that names a patient of the list
StepOn(k) == call' = "step" /\ k \in Positions /\ Slot' = k

(* C11: a step whose decision escalates an IN_BED patient to a ventilator  *)
(* has the setup-delay penalty of -5 in the reward it returns.             *)
C11_Escalated(k) ==
    /\ StepOn(k) /\ ActionType' = ADMIT_VENTILATOR
    /\ patients[k].status = IN_BED
    /\ patients'[k].status = ON_VENTILATOR

C11_EscalationPenalised ==
    [][\A k \in Positions :
        C11_Escalated(k) => reward'.setup_delay = - SetupDelayPenalty]_vars

(* C12: through step, ADMIT_VENTILATOR on an IN_BED patient with a         *)
(* ventilator free escalates the patient to ON_VENTILATOR, however many    *)
(* nurses or beds are free.                                                *)
C12_EscalationNeedsOnlyVentilator ==
    [][\A k \in Positions :
        /\ StepOn(k) /\ ActionType' = ADMIT_VENTILATOR
        /\ patients[k].status = IN_BED
        /\ free_vents >= 1
        => patients'[k].status = ON_VENTILATOR]_vars

(* C13: a rejected decision changes nothing.  perform_action on an id    *)
(* that no patient has, or whose patient is CURED or LOST, returns False    *)
(* and leaves the engine as it was, for every action type; step on a slot  *)
(* past the end of the list or on the slot of a CURED or LOST patient      *)
(* applies its decision to no patient and its decision phase leaves the    *)
(* engine as it was.                                                        *)
C13_NoLivePatient(patient_id) ==
    \A k \in Positions : patients[k].id = patient_id => patients[k].status \in Terminal

C13_RejectedChangesNothing ==
    /\ \A patient_id \in PatientIds, action_type \in ActionTypes :
        C13_NoLivePatient(patient_id) =>
            perform_action(Engine, patient_id, action_type) = Outcome(FALSE, Engine)
    /\ \A d \in Slots \X {ADMIT_BED, ADMIT_VENTILATOR, NO_OP} :
        d[1] >= Len(patients) \/ patients[d[1] + 1].status \in Terminal =>
            LET v == Validate(Engine, d[1], d[2]) IN
            /\ v.patient = 0
            /\ v.step_penalty = - InvalidTargetPenalty
            /\ Decide(Engine, v, d[2]) = Engine

\* a step has just been given an admission for the slot of a patient that was
\* CURED before it, while another patient waits and every resource is free
C13_Witness ==
    /\ call = "step" /\ ActionType \in {ADMIT_BED, ADMIT_VENTILATOR}
    /\ Slot \in Positions /\ patients[Slot].status = CURED
    /\ ~ just_saved_a_patient
    /\ reward.step_penalty = - InvalidTargetPenalty
    /\ \E k \in Positions : patients[k].status = WAITING
    /\ free_beds = num_beds /\ free_nurses = num_nurses /\ free_vents = num_ventilators

(* C14: perform_action(id, 2) returns True and changes no state for every  *)
(* patient id, including ids no patient has and ids of CURED or LOST       *)
(* patients.                                                                *)
C14_NoOpAlwaysSucceeds ==
    \A patient_id \in PatientIds :
        perform_action(Engine, patient_id, NO_OP) = Outcome(TRUE, Engine)

(* C14, amended: perform_action(id, 2) returns True and changes no state   *)
(* for every id of a patient of the list that is neither CURED nor LOST;   *)
(* for an id no patient has and for the id of a CURED or LOST patient it   *)
(* returns False, and changes no state either.                             *)
C14_NoOpSucceedsOnLivePatients ==
    \A patient_id \in PatientIds :
        perform_action(Engine, patient_id, NO_OP) =
            Outcome(~ C13_NoLivePatient(patient_id), Engine)

\* a call of perform_action has just succeeded and every patient of the list
\* still waits: it was a NO_OP on one of them
C14_Witness ==
    /\ call = "perform_action" /\ ret
    /\ Len(patients) > 0
    /\ \A k \in Positions : patients[k].status = WAITING

(* C15: every call of step advances the tick by exactly one and runs the  *)
(* update of each patient exactly once, whether its decision was applied,  *)
(* rejected as invalid, rejected for lack of resources, or a no-op: a      *)
(* patient that waits has waited one tick more, a running setup countdown  *)
(* is one lower (a countdown started by this step's decision included),    *)
(* and a patient under care whose setup is over has gained once.           *)
C15_UpdatedOnce(p, q) ==
    /\ q.status = WAITING => q.time_waiting = p.time_waiting + 1
    /\ p.status = WAITING /\ q.status = IN_BED =>
        q.bed_setup_ticks = BedSetupTicks - 1 /\ q.severity = p.severity
    /\ p.status # ON_VENTILATOR /\ q.status = ON_VENTILATOR =>
        q.vent_setup_ticks = VentSetupTicks - 1 /\ q.severity = p.severity
    /\ p.status = IN_BED /\ q.status = IN_BED =>
        IF p.bed_setup_ticks > 0
        THEN q.bed_setup_ticks = p.bed_setup_ticks - 1 /\ q.severity = p.severity
        ELSE q.severity = Min(MaxSeverity, p.severity + BedGain)
    /\ p.status = ON_VENTILATOR /\ q.status = ON_VENTILATOR =>
        IF p.vent_setup_ticks > 0
        THEN q.vent_setup_ticks = p.vent_setup_ticks - 1 /\ q.severity = p.severity
        ELSE q.severity = Min(MaxSeverity, p.severity + VentGain)

C15_Step ==
    call' = "step" =>
        /\ tick' = tick + 1
        /\ Len(patients') >= Len(patients)
        /\ \A k \in Positions : C15_UpdatedOnce(patients[k], patients'[k])
        /\ total_wait_time' = total_wait_time
              + Cardinality({k \in 1 .. Len(patients') : patients'[k].status = WAITING})

C15_StepAlwaysTicks == [][C15_Step]_vars

\* a step whose admission was rejected for lack of resources has run: the
\* patient it named waits, one tick older, while another has the ventilator
C15_Witness ==
    /\ call = "step" /\ ActionType = ADMIT_VENTILATOR
    /\ reward.step_penalty = - NoResourcePenalty
    /\ free_vents = 0
    /\ Slot \in Positions /\ patients[Slot].status = WAITING
    /\ patients[Slot].time_waiting > PreTicks

(* C16: in step, every ADMIT_BED or ADMIT_VENTILATOR decision that is      *)
(* rejected (its decision phase reserves nothing and changes no patient)   *)
(* has a strictly negative step_penalty in that step's reward.             *)
C16_Rejected ==
    /\ call' = "step"
    /\ ActionType' \in {ADMIT_BED, ADMIT_VENTILATOR}
    /\ LET d == Decide(Engine, Validate(Engine, action'[1], ActionType'), ActionType')
       IN /\ d.patients = patients
          /\ d.beds = beds /\ d.nurses = nurses /\ d.ventilators = ventilators

C16_RejectedAdmissionPenalised ==
    [][C16_Rejected => reward'.step_penalty < 0]_vars

(* C17: within one step the arrival runs first, then the decision, then    *)
(* the update of every patient, then the increment of the tick: a patient  *)
(* arrives in the step iff the tick before the increment has reached       *)
(* next_arrival, and a patient that arrives in the step is in the list     *)
(* when the decision is validated, so that its slot is not out of range.   *)
C17_Arrived == call' = "step" /\ Len(patients') = Len(patients) + 1

C17_Step ==
    call' = "step" =>
        /\ tick' = tick + 1
        /\ Len(patients') \in {Len(patients), Len(patients) + 1}
        /\ C17_Arrived <=> tick + 1 >= next_arrival
        /\ Slot' > Len(patients) =>
              /\ reward'.step_penalty = - InvalidTargetPenalty
              /\ \A k \in Positions : patients'[k].status = patients[k].status
        /\ C17_Arrived =>
              /\ patients'[Len(patients')].status = WAITING
              /\ patients'[Len(patients')].time_waiting = 1
              /\ patients'[Len(patients')].severity
                    \in {v * Scale - WaitingLoss : v \in InitialSeverities}
        /\ \A k \in Positions :
              patients[k].status = WAITING /\ patients'[k].status = IN_BED =>
                  /\ Slot' = k
                  /\ patients'[k].bed_setup_ticks = BedSetupTicks - 1

C18_Step ==
    /\ call' = "update_tick" =>
        /\ Len(patients') = Len(patients) + (IF tick' >= next_arrival THEN 1 ELSE 0)
        /\ \A k \in Positions : patients'[k].id = patients[k].id
    /\ Len(patients') <= tick'

C18_OneArrivalPerTick == [][C18_Step]_vars

\* a tick that had overshot next_arrival has just created the one patient
\* that makes the list as long as the ticks elapsed
C18_Witness ==
    /\ call = "update_tick"
    /\ Len(patients) >= 2 /\ Len(patients) = tick
    /\ next_arrival >= tick
    /\ patients[Len(patients)].time_waiting = 1

(* C19: a successful bed admission of a WAITING patient (perform_action    *)
(* with ADMIT_BED, assign_patient_to_bed or assign_patient_to_specific_bed)*)
(* sets its status to IN_BED and its bed setup countdown to 3, records on  *)
(* it one bed and one nurse that were available and no longer are, lowers  *)
(* free_beds and free_nurses by exactly 1, and leaves free_vents, the      *)
(* ventilators, the patient's condition and every other patient unchanged. *)
C19_Admitted(k, r) ==
    r.ok =>
        LET q == r.s.patients[k] IN
        /\ q.status = IN_BED
        /\ q.bed_setup_ticks = BedSetupTicks
        /\ q.assigned_bed \in DOMAIN beds
        /\ beds[q.assigned_bed] /\ ~ r.s.beds[q.assigned_bed]
        /\ q.assigned_nurse \in DOMAIN nurses
        /\ nurses[q.assigned_nurse] /\ ~ r.s.nurses[q.assigned_nurse]
        /\ q.assigned_ventilator = None
        /\ Available(r.s.beds) = Available(beds) - 1
        /\ Available(r.s.nurses) = Available(nurses) - 1
        /\ r.s.free_beds = free_beds - 1
        /\ r.s.free_nurses = free_nurses - 1
        /\ r.s.free_vents = free_vents
        /\ r.s.ventilators = ventilators
        /\ q.severity = patients[k].severity
        /\ q.time_waiting = patients[k].time_waiting
        /\ \A j \in Positions \ {k} : r.s.patients[j] = patients[j]

C19_BedAdmission ==
    \A k \in Positions :
        patients[k].status = WAITING =>
            /\ C19_Admitted(k, perform_action(Engine, patients[k].id, ADMIT_BED))
            /\ C19_Admitted(k, assign_patient_to_bed(Engine, k))
            /\ \A bed \in DOMAIN beds \cup {None}, nurse \in DOMAIN nurses \cup {None} :
                C19_Admitted(k, assign_patient_to_specific_bed(Engine, k, bed, nurse))

\* a bed admission has just succeeded while another patient waits
C19_Witness ==
    /\ call \in {"assign_patient_to_bed", "assign_patient_to_specific_bed"} /\ ret
    /\ \E k, j \in Positions :
        /\ patients[k].status = IN_BED
        /\ patients[k].bed_setup_ticks = BedSetupTicks
        /\ patients[j].status = WAITING
    /\ free_vents = num_ventilators

(* C20: setup suppresses healing.  A bed admission leaves the condition as *)
(* it was and starts the countdown at 3; each tick over an IN_BED patient  *)
(* whose countdown is running lowers the countdown by one and leaves the   *)
(* condition as it was; a tick over an IN_BED patient whose countdown is   *)
(* at 0 raises the condition by 1.5, capped at 100.                        *)
C20_Step ==
    \A k \in Positions :
        Kept(k) =>
            LET p == patients[k]
                q == patients'[k]
            IN /\ p.status = WAITING /\ q.status = IN_BED =>
                    q.severity = p.severity /\ q.bed_setup_ticks = BedSetupTicks
               /\ p.status = IN_BED /\ call' = "update_tick" =>
                    IF p.bed_setup_ticks > 0
                    THEN /\ q.severity = p.severity
                         /\ q.bed_setup_ticks = p.bed_setup_ticks - 1
                         /\ q.status = IN_BED
                    ELSE /\ q.severity = Min(MaxSeverity, p.severity + BedGain)
                         /\ q.bed_setup_ticks = 0
               /\ q.status = IN_BED => q.bed_setup_ticks \in 0 .. BedSetupTicks

C20_SetupSuppressesHealing == [][C20_Step]_vars

\* a patient admitted to a bed after one tick of waiting has sat out the
\* countdown and gained for the first time
C20_Witness ==
    /\ call = "update_tick"
    /\ \E k \in Positions :
        /\ patients[k].status = IN_BED
        /\ patients[k].bed_setup_ticks = 0
        /\ patients[k].time_waiting = 1
        /\ patients[k].severity = InitialSeverityHigh * Scale - WaitingLoss + BedGain

(* C21: a WAITING patient that is never assigned any resource reaches     *)
(* condition 0 and status LOST within 200 ticks of arriving, whatever      *)
(* condition in 0 .. 100 it was created at; in the tick of that transition *)
(* patients_lost rises by exactly 1 for it, and no resource flag and no    *)
(* free counter changes on its account.                                    *)
C21_BecomesLost(k) ==
    Kept(k) /\ patients[k].status = WAITING /\ patients'[k].status = LOST

C21_Step ==
    /\ \A k \in 1 .. Len(patients') :
        patients'[k].status = WAITING => patients'[k].time_waiting < 200
    /\ patients_lost' =
          patients_lost + Cardinality({k \in Positions : C21_BecomesLost(k)})
    /\ \A k \in Positions :
        C21_BecomesLost(k) =>
            /\ call' = "update_tick"
            /\ patients'[k].severity = MinSeverity /\ ~ patients'[k].short
            /\ patients'[k].time_waiting <= 200
            /\ HoldsNothing(patients[k]) /\ HoldsNothing(patients'[k])
            /\ (\A j \in Positions \ {k} : patients'[j].status = patients[j].status) =>
                  /\ patients_lost' = patients_lost + 1
                  /\ beds' = beds /\ nurses' = nurses /\ ventilators' = ventilators
                  /\ free_beds' = free_beds
                  /\ free_nurses' = free_nurses
                  /\ free_vents' = free_vents

C21_WaitingPatientIsLost == [][C21_Step]_vars

\* the patient created at condition 100 has just been LOST, after more than
\* 120 ticks of waiting, long after a patient given a bed was cured
C21_Witness ==
    /\ call = "update_tick" /\ just_lost_a_patient
    /\ patients_lost = 1 /\ patients_saved = 1
    /\ patients[1].status = LOST /\ patients[1].time_waiting > 120
    /\ patients[1].severity = MinSeverity

(* C22: each patient is tallied exactly once, at its terminal transition: *)
(* in every reachable state patients_saved is the number of CURED patients *)
(* of the list and patients_lost the number of LOST patients; a step other *)
(* than reset raises each counter by the number of patients that became    *)
(* CURED, or LOST, in it, and never lowers it.                             *)
C22_WithStatus(ps, status) == Cardinality({k \in 1 .. Len(ps) : ps[k].status = status})

C22_Became(status) ==
    Cardinality({k \in Positions :
        Kept(k) /\ patients[k].status # status /\ patients'[k].status = status})

C22_Step ==
    /\ patients_saved = C22_WithStatus(patients, CURED)
    /\ patients_lost = C22_WithStatus(patients, LOST)
    /\ patients_saved' = C22_WithStatus(patients', CURED)
    /\ patients_lost' = C22_WithStatus(patients', LOST)
    /\ call' # "reset" =>
        /\ patients_saved' >= patients_saved
        /\ patients_lost' >= patients_lost
        /\ patients_saved' = patients_saved + C22_Became(CURED)
        /\ patients_lost' = patients_lost + C22_Became(LOST)

C22_TalliedOnce == [][C22_Step]_vars

\* ticks have run over a CURED and a LOST patient since their transitions:
\* each is counted once
C22_Witness ==
    /\ call = "update_tick"
    /\ ~ just_saved_a_patient /\ ~ just_lost_a_patient
    /\ Len(patients) = 2
    /\ \A k \in Positions : patients[k].status \in Terminal
    /\ patients_saved = 1 /\ patients_lost = 1

(* C23: step reports terminated exactly when the tick counter after the   *)
(* step is >= max_ticks, and always reports truncated = false.  reset      *)
(* leaves the tick at 5 and each step adds one, so the step whose tick is  *)
(* 5 + n is step number n of its episode, and the first step that reports  *)
(* terminated is step number max(1, max_ticks - 5).                        *)
C23_StepNumber == tick - PreTicks

C23_Step ==
    /\ call' = "env_reset" => tick' = PreTicks
    /\ call' = "step" =>
        /\ tick' = tick + 1
        /\ terminated' <=> tick' >= max_ticks
        /\ truncated' = FALSE
        /\ terminated' => C23_StepNumber' = Max(1, max_ticks - PreTicks)
        /\ ~ terminated' => C23_StepNumber' < Max(1, max_ticks - PreTicks)

C23_TerminationByTime == [][C23_Step]_vars

\* the last step of an episode longer than the ticks reset runs has just
\* reported terminated
C23_Witness ==
    /\ call = "step" /\ terminated /\ ~ truncated
    /\ max_ticks > PreTicks + 1
    /\ tick = max_ticks

C25_InUnitRange(x) == x.den > 0 /\ x.num >= 0 /\ x.num <= x.den

C25_ObservationInUnitRange ==
    call \in {"env_reset", "step"} =>
        /\ \A i \in Slots :
            /\ C25_InUnitRange(observation.slots[i].severity)
            /\ C25_InUnitRange(observation.slots[i].time_waiting)
            /\ C25_InUnitRange(observation.slots[i].status)
            /\ C25_InUnitRange(observation.slots[i].type)
        /\ C25_InUnitRange(observation.free_beds)
        /\ C25_InUnitRange(observation.free_nurses)
        /\ C25_InUnitRange(observation.free_vents)
        /\ C25_InUnitRange(observation.free_step_down)
        /\ C25_InUnitRange(observation.tick)

(* C26: seeded runs are reproducible: two environments reset with the    *)
(* same seed and given the same decisions pass through the same states,    *)
(* the ticks at which patients arrive and each arriving patient's initial  *)
(* condition included.  That is: reset with a given seed leaves one state, *)
(* and a step on a given decision leaves one state.                        *)
C26_OneOutcome(a) ==
    \A d, e \in SeededSeverities(Engine) :
        seeded_step(Engine, np_random, a[1], a[2], d,
                    [k \in 1 .. Len(patients) + 1 |-> FALSE])
        = seeded_step(Engine, np_random, a[1], a[2], e,
                      [k \in 1 .. Len(patients) + 1 |-> FALSE])

C26_SeededRunsReproducible ==
    /\ call = "init" =>
        \A st \in Seeds : Cardinality(seeded_reset(Engine, st)) = 1
    /\ call \in {"env_reset", "step"} /\ ~ terminated =>
        \A a \in Slots \X {ADMIT_BED, ADMIT_VENTILATOR, NO_OP} : C26_OneOutcome(a)

(* C27: for a fixed seed the arrival schedule is fixed and independent of  *)
(* the decisions taken: after every tick of an episode the number of       *)
(* patients is the number the seed's stream of draws alone gives for that  *)
(* tick, whatever decisions the steps were given.                          *)
RECURSIVE C27_Schedule(_, _, _, _, _)
C27_Schedule(now, until, next, rng, arrived) ==
    IF now = until THEN arrived
    ELSE IF now + 1 >= next
    THEN C27_Schedule(now + 1, until, now + 1 + Head(rng), Tail(rng), arrived + 1)
    ELSE C27_Schedule(now + 1, until, next, rng, arrived)

C27_ArrivalsBy(st, t) == C27_Schedule(0, t, st[1], Tail(st), 0)

C27_ArrivalsFixedBySeed ==
    call \in {"env_reset", "step"} =>
        Len(patients) = C27_ArrivalsBy(seed, tick)

\* a step has admitted one patient in the tick in which another one arrived
C27_Witness ==
    /\ call = "step" /\ ActionType \in {ADMIT_BED, ADMIT_VENTILATOR}
    /\ Len(patients) = 2
    /\ patients[2].time_waiting = 1
    /\ patients[1].status = IN_BED /\ patients[1].bed_setup_ticks = BedSetupTicks - 1

(* C28: reset returns the engine to the fresh state whatever came before: *)
(* tick 0, no patients, saved, lost and wait totals 0, every resource      *)
(* available and each free counter at its pool size; and n ticks without   *)
(* decisions from that state give tick = n, at most n patients and every   *)
(* resource still free.                                                    *)
C28_AllFree(s) ==
    /\ \A n \in DOMAIN s.nurses : s.nurses[n]
    /\ \A b \in DOMAIN s.beds : s.beds[b]
    /\ \A v \in DOMAIN s.ventilators : s.ventilators[v]
    /\ s.free_nurses = s.num_nurses /\ s.num_nurses = Cardinality(DOMAIN s.nurses)
    /\ s.free_beds = s.num_beds /\ s.num_beds = Cardinality(DOMAIN s.beds)
    /\ s.free_vents = s.num_ventilators
    /\ s.num_ventilators = Cardinality(DOMAIN s.ventilators)

C28_Fresh(s) ==
    /\ s.tick = 0
    /\ s.patients = << >>
    /\ s.next_patient_id = 0
    /\ s.patients_saved = 0 /\ s.patients_lost = 0 /\ s.total_wait_time = 0
    /\ C28_AllFree(s)

C28_ResetIsFresh ==
    /\ \A gap \in ArrivalGaps : C28_Fresh(reset(Engine, gap))
    /\ call = "reset" =>
        /\ C28_Fresh(Engine)
        /\ \A n \in 0 .. PreTicks :
            \A t \in AfterTicks({Engine}, n, ArrivalGaps) :
                /\ t.tick = n
                /\ Len(t.patients) <= n
                /\ \A k \in 1 .. Len(t.patients) : HoldsNothing(t.patients[k])
                /\ C28_AllFree(t)

\* reset has just been called right after the tick in which a patient was
\* cured (reset leaves the just_saved_a_patient flag as it was)
C28_Witness ==
    /\ call = "reset" /\ just_saved_a_patient
    /\ tick = 0 /\ patients = << >> /\ patients_saved = 0
    /\ free_beds = num_beds /\ free_nurses = num_nurses /\ free_vents = num_ventilators

(* C29: patient ids are unique and increase in creation order: in every    *)
(* reachable state the patient at list position i (counted from 0) has id  *)
(* i, so the slot index of step and the id passed to perform_action name   *)
(* the same patient.                                                       *)
C29_IdsArePositions ==
    /\ next_patient_id = Len(patients)
    /\ \A k \in 1 .. Len(patients) :
        /\ patients[k].id = k - 1
        /\ FindPatient(Engine, patients[k].id) = k
        /\ \A j \in 1 .. Len(patients) :
            /\ j < k => patients[j].id < patients[k].id
            /\ j # k => patients[j].id # patients[k].id
    /\ \A patient_slot_id \in Slots : \A action_type \in {0, 1} :
        LET v == Validate(Engine, patient_slot_id, action_type) IN
        v.patient # 0 =>
            /\ v.patient = patient_slot_id + 1
            /\ FindPatient(Engine, patients[v.patient].id) = v.patient

\* step has admitted the patient of slot 1 while the patient of slot 0 waits
C29_Witness ==
    /\ call = "step" /\ action = << 1, 0 >>
    /\ Len(patients) >= 2
    /\ patients[1].status = WAITING
    /\ patients[2].status = IN_BED /\ patients[2].id = 1

(* C30: ties resolve to the lowest index: every successful perform_action *)
(* admission reserves the lowest-indexed available bed and the lowest-     *)
(* indexed available nurse, and every successful ventilator assignment the *)
(* lowest-indexed available ventilator, of the pools just before the call. *)

\* pools in which every scan can have more than one candidate
PoolNurses == 2
PoolVents == 2

\* SimICU.__init__ with two nurses, two beds and two ventilators
PoolInit ==
    /\ num_nurses = PoolNurses
    /\ num_beds = NumBeds
    /\ num_ventilators = PoolVents
    /\ patients = << >>
    /\ next_patient_id = 0
    /\ tick = 0
    /\ patients_saved = 0
    /\ patients_lost = 0
    /\ total_wait_time = 0
    /\ next_arrival \in ArrivalGaps
    /\ just_saved_a_patient = FALSE
    /\ just_lost_a_patient = FALSE
    /\ just_incurred_setup_delay = FALSE
    /\ free_beds = NumBeds
    /\ free_nurses = PoolNurses
    /\ free_vents = PoolVents
    /\ nurses = [n \in 0 .. PoolNurses - 1 |-> TRUE]
    /\ beds = [b \in BedIds |-> TRUE]
    /\ ventilators = [v \in 0 .. PoolVents - 1 |-> TRUE]
    /\ call = "init"
    /\ ret = TRUE
    /\ action = << 0, NO_OP >>
    /\ reward = NoReward
    /\ terminated = FALSE
    /\ truncated = FALSE
    /\ observation = None
    /\ info = None
    /\ seed = None
    /\ np_random = << >>
    /\ FrontInit
    /\ max_ticks = EnvMaxTicks

PoolSpec == PoolInit /\ [][Next]_vars

C30_LowestOf(pool, r) ==
    /\ r \in DOMAIN pool
    /\ pool[r]
    /\ \A r2 \in DOMAIN pool : r2 < r => ~ pool[r2]

C30_LowestIndexWins ==
    \A k \in 1 .. Len(patients) :
        \A action_type \in {ADMIT_BED, ADMIT_VENTILATOR} :
            LET r == perform_action(Engine, patients[k].id, action_type)
                p == patients[k]
                q == r.s.patients[k]
            IN r.ok =>
                /\ p.status = WAITING =>
                    /\ C30_LowestOf(beds, q.assigned_bed)
                    /\ C30_LowestOf(nurses, q.assigned_nurse)
                /\ p.status # WAITING =>
                    /\ q.assigned_bed = p.assigned_bed
                    /\ q.assigned_nurse = p.assigned_nurse
                /\ action_type = ADMIT_VENTILATOR =>
                    C30_LowestOf(ventilators, q.assigned_ventilator)
                /\ action_type = ADMIT_BED =>
                    q.assigned_ventilator = p.assigned_ventilator

\* perform_action has put the first patient on a ventilator while the second
\* holds bed, nurse and ventilator 0: each pool's lowest available index was 1
C30_Witness ==
    /\ call = "perform_action" /\ ret
    /\ Len(patients) >= 2
    /\ patients[2].assigned_bed = 0 /\ patients[1].assigned_bed = 1
    /\ patients[2].assigned_nurse = 0 /\ patients[1].assigned_nurse = 1
    /\ patients[2].assigned_ventilator = 0
    /\ patients[1].assigned_ventilator = 1
    /\ patients[1].vent_setup_ticks = VentSetupTicks

(* C32: each tick a WAITING patient's wait counter increases by exactly 1 *)
(* and its condition decreases by 0.5 + 0.1 * floor(w / 20), w being the   *)
(* wait counter after the increment, floored at 0; the loss of a tick is   *)
(* therefore non-decreasing in the time waited.  In tenths: 5 + w \div 20. *)
C32_Loss(w) == 5 + (w \div 20)

C32_Step ==
    call' = "update_tick" =>
        \A k \in Positions :
            patients[k].status = WAITING =>
                LET w == patients[k].time_waiting + 1 IN
                /\ patients'[k].time_waiting = w
                /\ patients'[k].severity =
                      Max(0, patients[k].severity - C32_Loss(w))
                /\ \A w2 \in w .. WaitHorizon : C32_Loss(w) <= C32_Loss(w2)

C32_WaitingLoss == [][C32_Step]_vars

\* a patient has waited into its fourth block of 20 ticks (loss 0.8 a tick)
\* and is still WAITING, with a condition not yet floored
C32_Witness ==
    /\ call = "update_tick"
    /\ patients[1].status = WAITING
    /\ patients[1].time_waiting = 60
    /\ patients[1].severity > MinSeverity

(* C33: after any successful ventilator assignment, direct from WAITING   *)
(* or as an escalation from IN_BED, the condition stays as it was for the  *)
(* next 5 ticks while the ventilator countdown runs from 5 to 0, then      *)
(* rises by 3.0 a tick, capped at 100; a bed setup countdown left over     *)
(* from before the assignment plays no further part.                       *)
C33_Step ==
    \A k \in Positions :
        Kept(k) =>
            LET p == patients[k]
                q == patients'[k]
            IN /\ p.status \in {WAITING, IN_BED} /\ q.status = ON_VENTILATOR =>
                    /\ q.severity = p.severity
                    /\ q.vent_setup_ticks = 5
               /\ p.status = ON_VENTILATOR /\ call' = "update_tick" =>
                    /\ q.bed_setup_ticks = p.bed_setup_ticks
                    /\ IF p.vent_setup_ticks > 0
                       THEN /\ q.severity = p.severity
                            /\ q.vent_setup_ticks = p.vent_setup_ticks - 1
                            /\ q.status = ON_VENTILATOR
                       ELSE /\ q.severity = Min(100 * Scale, p.severity + 3 * Scale)
                            /\ q.vent_setup_ticks = 0
               /\ q.status = ON_VENTILATOR => q.vent_setup_ticks \in 0 .. 5

C33_VentilatorSetupThenGain == [][C33_Step]_vars

\* a patient put on a ventilator straight from the waiting room, after one
\* tick of waiting, has sat out the ventilator countdown and gained for the
\* first time, its bed countdown still where the admission set it
C33_Witness ==
    /\ call = "update_tick"
    /\ tick = FirstDecisionTick + 6
    /\ \E k \in Positions :
        /\ patients[k].status = ON_VENTILATOR
        /\ patients[k].vent_setup_ticks = 0
        /\ patients[k].bed_setup_ticks = BedSetupTicks
        /\ patients[k].severity = InitialSeverityHigh * Scale - WaitingLoss + VentGain

(* C34: in every reachable state of the engine the status determines what *)
(* a patient holds: a WAITING patient holds nothing, an IN_BED patient one *)
(* bed and one nurse and no ventilator, an ON_VENTILATOR patient one bed,  *)
(* one nurse and one ventilator; so ADMIT_BED on a patient that is not     *)
(* WAITING and ADMIT_VENTILATOR on an ON_VENTILATOR patient fail and       *)
(* reserve nothing.                                                        *)
C34_Holds(p, bed, nurse, ventilator) ==
    /\ (p.assigned_bed # None) = bed
    /\ (p.assigned_nurse # None) = nurse
    /\ (p.assigned_ventilator # None) = ventilator
    /\ bed => p.assigned_bed \in DOMAIN beds /\ ~ beds[p.assigned_bed]
    /\ nurse => p.assigned_nurse \in DOMAIN nurses /\ ~ nurses[p.assigned_nurse]
    /\ ventilator => /\ p.assigned_ventilator \in DOMAIN ventilators
                     /\ ~ ventilators[p.assigned_ventilator]

C34_StatusDeterminesHoldings ==
    \A k \in Positions :
        LET p == patients[k]
            bed == perform_action(Engine, p.id, ADMIT_BED)
            ventilator == perform_action(Engine, p.id, ADMIT_VENTILATOR)
        IN /\ p.status = WAITING => C34_Holds(p, FALSE, FALSE, FALSE)
           /\ p.status = IN_BED => C34_Holds(p, TRUE, TRUE, FALSE)
           /\ p.status = ON_VENTILATOR => C34_Holds(p, TRUE, TRUE, TRUE)
           /\ p.status # WAITING => ~ bed.ok /\ bed.s = Engine
           /\ p.status = ON_VENTILATOR => ~ ventilator.ok /\ ventilator.s = Engine

\* perform_action has just refused a decision while one patient is in a bed
\* and the other on a ventilator, with a bed, a nurse and a ventilator free
C34_Witness ==
    /\ call = "perform_action" /\ ~ ret
    /\ Len(patients) = 2
    /\ patients[1].status = IN_BED /\ patients[2].status = ON_VENTILATOR
    /\ free_vents > 0

(* C35: if ticks keep being applied, every patient that is IN_BED or       *)
(* ON_VENTILATOR is eventually CURED and never LOST (its condition never   *)
(* decreases once it is admitted), and from the tick of the cure the bed,  *)
(* nurse and ventilator it held are available to other patients.           *)

\* ticks enough for every patient admitted by the last decision to be cured
CareHorizon == 2 * MaxTick

\* update_tick, applied as long as the ticks explored last; no patient
\* arrives within them once MaxPatients have
CareTick ==
    /\ tick < CareHorizon
    /\ ArrivalDue => Len(patients) < MaxPatients
    /\ \E d \in IF ArrivalDue
                THEN {d \in InitialSeverities \X {0, CareHorizon + 1} :
                        Len(patients) + 1 >= MaxPatients => d[2] = CareHorizon + 1}
                ELSE {<< InitialSeverityLow, 0 >>} :
        LET s == TickAndArrival(Engine, d[1], d[2]) IN
        \E f \in Roundings(s.patients) :
            Called("update_tick", Outcome(TRUE, UpdateLoop(s, 1, f)))

CareNext ==
    \/ PerformAction
    \/ AssignPatientToBed
    \/ AssignPatientToSpecificBed
    \/ AssignPatientToVentilator
    \/ CareTick

\* update_tick as the tick counter shows it: under CareNext the steps that
\* raise tick are those of CareTick, which is enabled under this condition
Ticking ==
    /\ tick < CareHorizon
    /\ ArrivalDue => Len(patients) < MaxPatients
    /\ tick' = tick + 1

\* the engine without reset, its ticks kept being applied
CareSpec == PoolInit /\ [][CareNext]_vars /\ WF_tick(Ticking)

C35_InCare(k) ==
    k <= Len(patients) /\ patients[k].status \in {IN_BED, ON_VENTILATOR}

C35_Cured(k) ==
    /\ k <= Len(patients)
    /\ patients[k].status = CURED
    /\ HoldsNothing(patients[k])

C35_Step ==
    \A k \in Positions :
        C35_InCare(k) =>
            LET p == patients[k]
                q == patients'[k]
            IN /\ q.status \in {IN_BED, ON_VENTILATOR, CURED}
               /\ q.severity >= p.severity
               /\ q.status = CURED =>
                    /\ HoldsNothing(q)
                    /\ beds'[p.assigned_bed] /\ nurses'[p.assigned_nurse]
                    /\ p.assigned_ventilator # None =>
                          ventilators'[p.assigned_ventilator]
                    /\ free_beds' > free_beds /\ free_nurses' > free_nurses

C35_AdmittedIsCured ==
    /\ [][C35_Step]_vars
    /\ \A k \in 1 .. MaxPatients : C35_InCare(k) ~> C35_Cured(k)

\* a patient admitted at the second decision has been cured after the ticks
\* of the engine's own horizon, and every resource is free again
C35_Witness ==
    /\ call = "update_tick" /\ just_saved_a_patient
    /\ tick > MaxTick
    /\ free_beds = num_beds /\ free_nurses = num_nurses
    /\ free_vents = num_ventilators
    /\ \E k \in Positions : patients[k].status = CURED

(* C36: when the decision source only issues slots inside the action      *)
(* space [0, max_patients), a patient whose position in the never-pruned   *)
(* patient list is >= max_patients is never visible in the observation, is *)
(* never admitted, and ends LOST; after max_patients arrivals every        *)
(* further arrival is lost even if earlier patients are already terminal   *)
(* and resources are free.                                                 *)

\* arrivals enough for one patient beyond the slots, and an episode long
\* enough for a patient that is left waiting to be lost
OverflowPatients == 4
OverflowMaxTicks == 100

\* the draws of one update_tick; no patient arrives within the episode once
\* OverflowPatients have
OverflowDrawsFor(s) ==
    IF s.tick + 1 >= s.next_arrival
    THEN {d \in InitialSeverities \X {0, FarGap, OverflowMaxTicks + 1} :
            Len(s.patients) + 1 >= OverflowPatients => d[2] = OverflowMaxTicks + 1}
    ELSE {<< InitialSeverityLow, 0 >>}

OverflowTicked(s) ==
    UNION {{UpdateLoop(t, 1, f) : f \in Roundings(t.patients)} :
            t \in {TickAndArrival(s, d[1], d[2]) : d \in OverflowDrawsFor(s)}}

RECURSIVE OverflowAfterTicks(_, _)
OverflowAfterTicks(S, n) ==
    IF n = 0 THEN S
    ELSE OverflowAfterTicks(UNION {OverflowTicked(s) : s \in S}, n - 1)

\* SimICUEnv.reset, called once
OverflowReset ==
    /\ call = "init"
    /\ \E s \in OverflowAfterTicks({reset(Engine, gap) : gap \in {0, FarGap}},
                                   PreTicks) :
        /\ call' = "env_reset"
        /\ ret' = TRUE
        /\ Becomes(s)
        /\ observation' = get_state(s)
        /\ info' = << >>
        /\ UNCHANGED << action, reward, terminated, truncated, max_ticks,
                        seed, np_random >>
        /\ UNCHANGED front

\* SimICUEnv.step with a decision of the action space
OverflowStep ==
    /\ call = "env_reset" \/ (call = "step" /\ ~ terminated)
    /\ \E a \in Decisions(tick) :
        LET s1 == Decide(Engine, Validate(Engine, a[1], a[2]), a[2]) IN
        \E d \in OverflowDrawsFor(s1) :
            \E f \in Roundings(TickAndArrival(s1, d[1], d[2]).patients) :
                /\ Stepped(a, step(Engine, a[1], a[2], d[1], d[2], f))
                /\ UNCHANGED << seed, np_random >>
                /\ UNCHANGED front

\* SimICUEnv.__init__ with max_patients slots, for a short and a long episode
OverflowInit ==
    /\ num_nurses = EnvNumNurses
    /\ num_beds = EnvNumBeds
    /\ num_ventilators = EnvNumVents
    /\ patients = << >>
    /\ next_patient_id = 0
    /\ tick = 0
    /\ patients_saved = 0
    /\ patients_lost = 0
    /\ total_wait_time = 0
    /\ next_arrival = 0
    /\ just_saved_a_patient = FALSE
    /\ just_lost_a_patient = FALSE
    /\ just_incurred_setup_delay = FALSE
    /\ free_beds = EnvNumBeds
    /\ free_nurses = EnvNumNurses
    /\ free_vents = EnvNumVents
    /\ nurses = [n \in 0 .. EnvNumNurses - 1 |-> TRUE]
    /\ beds = [b \in 0 .. EnvNumBeds - 1 |-> TRUE]
    /\ ventilators = [v \in 0 .. EnvNumVents - 1 |-> TRUE]
    /\ call = "init"
    /\ ret = TRUE
    /\ action = << 0, NO_OP >>
    /\ reward = NoReward
    /\ terminated = FALSE
    /\ truncated = FALSE
    /\ observation = None
    /\ info = None
    /\ seed = None
    /\ np_random = << >>
    /\ FrontInit
    /\ max_ticks \in {EnvMaxTicks, OverflowMaxTicks}

OverflowNext ==
    \/ OverflowReset
    \/ OverflowStep

OverflowSpec == OverflowInit /\ [][OverflowNext]_vars

\* the patients beyond the slots
C36_Beyond == {k \in Positions : k > max_patients}

\* what the claim says of them at every moment: nothing held, never in care
\* or cured, and an observation that is the one of the list cut at the slots
C36_OutOfReach ==
    /\ \A k \in C36_Beyond :
        /\ patients[k].status \in {WAITING, LOST}
        /\ HoldsNothing(patients[k])
        /\ patients[k].bed_setup_ticks = 0 /\ patients[k].vent_setup_ticks = 0
    /\ call \in {"env_reset", "step"} =>
        observation = get_state([Engine EXCEPT !.patients =
                        SubSeq(patients, 1, Min(Len(patients), max_patients))])

C36_BeyondSlotsEndsLost ==
    /\ C36_OutOfReach
    /\ terminated => \A k \in C36_Beyond : patients[k].status = LOST

(* C36, amended: such a patient is never visible in the observation and    *)
(* never admitted, whatever becomes of the patients in the slots and of    *)
(* the resources: it waits until it is LOST, which it is once it has       *)
(* waited 90 ticks; an episode that terminates earlier leaves it WAITING.  *)
C36_BeyondSlotsNeverAdmitted ==
    /\ C36_OutOfReach
    /\ \A k \in C36_Beyond :
        patients[k].time_waiting >= 90 => patients[k].status = LOST

\* the patient beyond the slots has just been lost although a patient of
\* the slots was cured long before and a bed and nurses are free
C36_Witness ==
    /\ call = "step" /\ just_lost_a_patient
    /\ Len(patients) > max_patients
    /\ patients[max_patients + 1].status = LOST
    /\ patients_saved >= 1
    /\ free_beds > 0 /\ free_nurses >= 2

(* C37: the score is consistent in every reachable state: total_wait_time *)
(* equals the sum over all patients in the list of their wait counters,    *)
(* and active_patients equals the number of patients minus patients_saved  *)
(* minus patients_lost.                                                    *)
RECURSIVE C37_SumOfWaits(_)
C37_SumOfWaits(ps) ==
    IF ps = << >> THEN 0 ELSE Head(ps).time_waiting + C37_SumOfWaits(Tail(ps))

C37_ScoreConsistent ==
    /\ get_score(Engine).total_wait_time = C37_SumOfWaits(patients)
    /\ get_score(Engine).active_patients =
          Len(patients) - patients_saved - patients_lost

\* the part of C37 about active_patients alone
C37_ActiveCount ==
    get_score(Engine).active_patients = Len(patients) - patients_saved - patients_lost

\* what the code keeps instead: the total misses the last tick of each
\* patient that was lost from the waiting room
C37_TotalMissesLastWait ==
    total_wait_time = C37_SumOfWaits(patients)
        - Cardinality({k \in Positions : patients[k].status = LOST})

----------------------------------------------------------------------------
(* ModernSimICU (modern_mode.py): the front-end that lets a trained policy *)
(* drive a SimICUEnv.  Its window, the positions of the nurses and of the  *)
(* walking patients are left out: that a nurse reaches its tile, or a      *)
(* patient its bed, within a frame is a free choice.  model.predict may    *)
(* return any decision of the action space.                                *)

\* the resets explored: the one of __init__ and the presses of the R key
MaxEpisodes == 2

\* a task of pending_assignments: the nurse running, the Patient object and
\* the bed or the ventilator it runs to (the key is absent: None)
Task(nurse, patient, bed, vent) ==
    [nurse |-> nurse, patient |-> patient, bed |-> bed, vent |-> vent]

\* the tasks a frame leaves in pending_assignments, from position k on:
\* those whose nurse has not reached its tile
RECURSIVE Remaining(_, _, _)
Remaining(tasks, reached, k) ==
    IF k > Len(tasks) THEN << >>
    ELSE (IF k \in reached THEN << >> ELSE << tasks[k] >>)
            \o Remaining(tasks, reached, k + 1)

\* the end of a frame of run, after the loop has left the queue of tasks
\* pending, the flag ready and the walking patients moves:
\* _update_nurse_positions drops the tasks whose nurse has arrived and sets
\* the flag, draw drops the patients that have arrived
ModernFrameEnd(pending, ready, moves) ==
    /\ \E reached \in SUBSET (1 .. Len(pending)) :
        /\ pending_assignments' = Remaining(pending, reached, 1)
        /\ ready_to_apply_deferred' = (ready \/ reached # {})
    /\ patient_moves' \in SUBSET moves

\* what one call of env.step on s with decision a can return
StepOutcomes(s, a) ==
    LET s1 == Decide(s, Validate(s, a[1], a[2]), a[2]) IN
    UNION {{step(s, a[1], a[2], d[1], d[2], f) :
                f \in Roundings(TickAndArrival(s1, d[1], d[2]).patients)} :
            d \in DrawsFor(s1, EnvArrivalGaps)}

\* the decision run hands to env.step: an admission is turned into a no-op
\* while a patient is walking or a nurse is on its way
Blocked(predicted) ==
    IF (patient_moves # {} \/ pending_assignments # << >>)
            /\ predicted[2] \in {ADMIT_BED, ADMIT_VENTILATOR}
    THEN << 0, NO_OP >>
    ELSE predicted

\* "Temporarily detach the nurse": p.assigned_nurse = None, for the patient
\* at position k
Detached(s, k) == [s EXCEPT !.patients[k].assigned_nurse = None]

\* the second part of an iteration of run's loop, from the engine s, with
\* deferred_action and ready_to_apply_deferred as deferred and ready:
\* predict, step, and the walk and the task started for a patient the step
\* has admitted from the waiting room
ModernPredicted(s, deferred, ready) ==
    \E predicted \in Decisions(s.tick) :
        LET a == Blocked(predicted)
            k == a[1] + 1
            start_pos == /\ a[2] \in {ADMIT_BED, ADMIT_VENTILATOR}
                         /\ a[1] < Len(s.patients)
                         /\ s.patients[k].status = WAITING
        IN
        \E r \in StepOutcomes(s, a) :
            LET p == r.s.patients[k]
                target == /\ start_pos
                          /\ deferred = NoAction
                          /\ (p.assigned_bed # None \/ p.assigned_ventilator # None)
                moves == IF target /\ patient_moves = {}
                         THEN {p.id} ELSE patient_moves
                avail == {n \in DOMAIN r.s.nurses : r.s.nurses[n]}
                queued == target /\ avail # {} /\ pending_assignments = << >>
            IN
            IF queued
            THEN \E nearest \in avail :
                    /\ Stepped(a, [r EXCEPT !.s = Detached(r.s, k)])
                    /\ deferred_action' = a
                    /\ ModernFrameEnd(
                          << Task(nearest, PatientRef(episode, p.id),
                                  p.assigned_bed,
                                  IF p.assigned_bed # None
                                  THEN None ELSE p.assigned_ventilator) >>,
                          ready, moves)
            ELSE /\ Stepped(a, r)
                 /\ deferred_action' = deferred
                 /\ ModernFrameEnd(pending_assignments, ready, moves)

\* a frame of run while the episode goes on (speed is 1): the deferred
\* decision is stepped once its nurse has arrived, then the policy's
\* decision is
ModernIterate ==
    /\ call = "env_reset" \/ (call = "step" /\ ~ terminated)
    /\ IF ready_to_apply_deferred /\ deferred_action # NoAction
       THEN \E r \in StepOutcomes(Engine, deferred_action) :
                IF r.terminated
                THEN /\ Stepped(deferred_action, r)
                     /\ deferred_action' = NoAction
                     /\ ModernFrameEnd(pending_assignments, FALSE, patient_moves)
                ELSE ModernPredicted(r.s, NoAction, FALSE)
       ELSE ModernPredicted(Engine, deferred_action, ready_to_apply_deferred)
    /\ UNCHANGED << seed, np_random, selected_patient, input_cooldown_ticks,
                    episode, dropped >>

\* a frame of run while paused or once the episode is done
ModernIdle ==
    /\ call # "init"
    /\ ModernFrameEnd(pending_assignments, ready_to_apply_deferred, patient_moves)
    /\ << pending_assignments, ready_to_apply_deferred, patient_moves >>' #
            << pending_assignments, ready_to_apply_deferred, patient_moves >>
    /\ Becomes(Engine)
    /\ UNCHANGED << call, ret, action, reward, terminated, truncated,
                    observation, info, max_ticks, seed, np_random,
                    selected_patient, input_cooldown_ticks, deferred_action,
                    episode, dropped >>

\* env.reset(): in __init__, and on the R key, which clears done and leaves
\* the tasks, the walks and the deferred decision
ModernReset ==
    /\ episode < MaxEpisodes
    /\ \E s \in env_reset(Engine, EnvArrivalGaps) :
        /\ call' = "env_reset"
        /\ ret' = TRUE
        /\ Becomes(s)
        /\ observation' = get_state(s)
        /\ info' = << >>
        /\ episode' = episode + 1
        /\ UNCHANGED << action, reward, terminated, truncated, max_ticks,
                        seed, np_random, pending_assignments, selected_patient,
                        input_cooldown_ticks, deferred_action,
                        ready_to_apply_deferred, patient_moves, dropped >>

ModernNext ==
    \/ ModernReset
    \/ ModernIterate
    \/ ModernIdle

ModernSpec == EnvInit /\ [][ModernNext]_vars

(* C31: the AI-driven front-end never writes engine state directly, so a   *)
(* nurse reserved for a patient is released when that patient becomes      *)
(* CURED or LOST: every nurse that is not available is the assigned nurse  *)
(* of a patient in care.                                                   *)
C31_ReservedNurseHasPatient ==
    \A n \in DOMAIN nurses :
        ~ nurses[n] =>
            \E k \in Positions :
                /\ patients[k].assigned_nurse = n
                /\ patients[k].status \in {IN_BED, ON_VENTILATOR}

\* the nurse of a cured patient stays reserved
C31_NurseLeaked ==
    /\ \E k \in Positions : patients[k].status = CURED
    /\ \A k \in Positions : patients[k].status # IN_BED
                                /\ patients[k].status # ON_VENTILATOR
    /\ free_nurses < num_nurses

----------------------------------------------------------------------------
(* RetroSimICU (retro_mode.py): the front-end a person plays.  A click on  *)
(* a waiting patient selects it, a click on a bed or a ventilator queues a *)
(* task for the nearest available nurse, and the engine's assignment is    *)
(* called when that nurse has run to its tile, some frames later.  The     *)
(* window and the positions are left out: which available nurse is the     *)
(* nearest, and the frame in which a nurse arrives, are free choices, as   *)
(* are the frames that tick the engine (update_every_n_frames, the pause). *)

\* the ticks a game is followed for, and the tasks queued at a time
RetroMaxTick == 3
MaxPending == 2
\* the presses of the R key explored, and the games whose clicks are
RetroResets == 1
ClickEpisodes == 1
\* self.input_cooldown_ticks = 8
InputCooldown == 8

\* the engines one update_tick of a game can leave: an arrival is drawn at
\* InitialSeverityHigh, and no more than MaxPatients arrive
RetroTicked(s) ==
    UNION {{UpdateLoop(t, 1, f) : f \in Roundings(t.patients)} :
            t \in {TickAndArrival(s, InitialSeverityHigh, gap) :
                      gap \in {g \in ArrivalGaps :
                                 /\ s.tick + 1 >= s.next_arrival
                                 /\ Len(s.patients) + 1 >= MaxPatients
                                 => g = FarGap}}}

\* SimICU() with two nurses, two beds and one ventilator
RetroInit ==
    /\ num_nurses = PoolNurses
    /\ num_beds = NumBeds
    /\ num_ventilators = NumVents
    /\ patients = << >>
    /\ next_patient_id = 0
    /\ tick = 0
    /\ patients_saved = 0
    /\ patients_lost = 0
    /\ total_wait_time = 0
    /\ next_arrival = 0
    /\ just_saved_a_patient = FALSE
    /\ just_lost_a_patient = FALSE
    /\ just_incurred_setup_delay = FALSE
    /\ free_beds = NumBeds
    /\ free_nurses = PoolNurses
    /\ free_vents = NumVents
    /\ nurses = [n \in 0 .. PoolNurses - 1 |-> TRUE]
    /\ beds = [b \in BedIds |-> TRUE]
    /\ ventilators = [v \in 0 .. NumVents - 1 |-> TRUE]
    /\ call = "init"
    /\ ret = TRUE
    /\ action = << 0, NO_OP >>
    /\ reward = NoReward
    /\ terminated = FALSE
    /\ truncated = FALSE
    /\ observation = None
    /\ info = None
    /\ seed = None
    /\ np_random = << >>
    /\ FrontInit
    /\ max_ticks = EnvMaxTicks

\* a Patient object of the current list, or one a reset has discarded
Listed(ref) == ref.episode = episode

\* the Patient object a task refers to, in the engine s and the discarded
\* objects d
TaskPatient(s, d, ref) ==
    IF Listed(ref) THEN s.patients[ref.id + 1] ELSE d[ref]

\* the engine's call for a task whose nurse has arrived, in
\* _update_nurse_positions: assign_patient_to_specific_bed(patient, bed,
\* nurse) for a bed, assign_patient_to_ventilator(patient) for a
\* ventilator.  x is the engine and the discarded objects; the call acts on
\* the object the task holds, in the list or not
RetroApply(x, task) ==
    LET n == Len(x.s.patients)
        t == IF Listed(task.patient) THEN x.s
             ELSE [x.s EXCEPT !.patients = Append(@, x.dropped[task.patient])]
        k == IF Listed(task.patient) THEN task.patient.id + 1 ELSE n + 1
        r == IF task.bed # None
             THEN assign_patient_to_specific_bed(t, k, task.bed, task.nurse)
             ELSE assign_patient_to_ventilator(t, k)
    IN IF Listed(task.patient)
       THEN [s |-> r.s, dropped |-> x.dropped]
       ELSE [s |-> [r.s EXCEPT !.patients = SubSeq(@, 1, n)],
             dropped |-> [x.dropped EXCEPT ![task.patient] = r.s.patients[n + 1]]]

\* the loop over pending_assignments from position k on, for the tasks
\* whose nurse has reached its tile
RECURSIVE RetroApplyAll(_, _, _, _)
RetroApplyAll(x, tasks, reached, k) ==
    IF k > Len(tasks) THEN x
    ELSE RetroApplyAll(IF k \in reached THEN RetroApply(x, tasks[k]) ELSE x,
                       tasks, reached, k + 1)

\* the discarded Patient objects that the tasks still refer to
Referenced(d, tasks) ==
    [ref \in {tasks[i].patient : i \in 1 .. Len(tasks)} \cap DOMAIN d |-> d[ref]]

\* a frame of run: update_tick on the frames that tick, the cooldown counted
\* down unless paused, then draw, whose _update_nurse_positions applies the
\* tasks of the nurses that have arrived
RetroFrame ==
    \E paused \in BOOLEAN, ticks \in {0, 1} :
        /\ paused => ticks = 0
        /\ ticks = 1 => tick < RetroMaxTick
        /\ \E s \in (IF ticks = 1 THEN RetroTicked(Engine) ELSE {Engine}) :
            \E reached \in SUBSET (1 .. Len(pending_assignments)) :
                LET x == RetroApplyAll([s |-> s, dropped |-> dropped],
                                       pending_assignments, reached, 1)
                    remaining == Remaining(pending_assignments, reached, 1)
                IN /\ Becomes(x.s)
                   /\ pending_assignments' = remaining
                   /\ dropped' = Referenced(x.dropped, remaining)
        /\ input_cooldown_ticks' =
              IF ~ paused /\ input_cooldown_ticks > 0
              THEN input_cooldown_ticks - 1 ELSE input_cooldown_ticks
        /\ call' = "frame"
        /\ ret' = TRUE
        /\ UNCHANGED << action, reward, terminated, truncated, observation,
                        info, max_ticks, seed, np_random, selected_patient,
                        deferred_action, ready_to_apply_deferred,
                        patient_moves, episode >>

\* handle_click on a patient of the waiting room
RetroSelect ==
    /\ input_cooldown_ticks = 0
    /\ episode < ClickEpisodes
    /\ \E k \in Positions :
        /\ patients[k].status = WAITING
        /\ selected_patient' = PatientRef(episode, patients[k].id)
    /\ call' = "handle_click"
    /\ ret' = TRUE
    /\ Becomes(Engine)
    /\ UNCHANGED << action, reward, terminated, truncated, observation, info,
                    max_ticks, seed, np_random, pending_assignments,
                    input_cooldown_ticks, deferred_action,
                    ready_to_apply_deferred, patient_moves, episode, dropped >>

\* handle_click has queued task
RetroQueued(task) ==
    /\ pending_assignments' = Append(pending_assignments, task)
    /\ input_cooldown_ticks' = InputCooldown
    /\ selected_patient' = NoPatient
    /\ call' = "handle_click"
    /\ ret' = TRUE
    /\ Becomes(Engine)
    /\ UNCHANGED << action, reward, terminated, truncated, observation, info,
                    max_ticks, seed, np_random, deferred_action,
                    ready_to_apply_deferred, patient_moves, episode, dropped >>

\* handle_click on a bed, with a patient selected
RetroClickBed ==
    /\ input_cooldown_ticks = 0
    /\ episode < ClickEpisodes
    /\ Len(pending_assignments) < MaxPending
    /\ selected_patient # NoPatient
    /\ \E bed \in DOMAIN beds :
        /\ beds[bed]
        /\ \E nearest \in {n \in DOMAIN nurses : nurses[n]} :
            RetroQueued(Task(nearest, selected_patient, bed, None))

\* handle_click on a ventilator, with a patient selected
RetroClickVent ==
    /\ input_cooldown_ticks = 0
    /\ episode < ClickEpisodes
    /\ Len(pending_assignments) < MaxPending
    /\ selected_patient # NoPatient
    /\ \E vent \in DOMAIN ventilators :
        /\ ventilators[vent]
        /\ \E nearest \in {n \in DOMAIN nurses : nurses[n]} :
            RetroQueued(Task(nearest, selected_patient, None, vent))

\* the R key: game.reset() and selected_patient = None; the tasks stay in
\* pending_assignments, with the Patient objects they hold
RetroReset ==
    /\ episode < RetroResets
    /\ Becomes(reset(Engine, 0))
    /\ selected_patient' = NoPatient
    /\ episode' = episode + 1
    /\ dropped' =
          [ref \in {pending_assignments[i].patient :
                        i \in 1 .. Len(pending_assignments)} |->
              TaskPatient(Engine, dropped, ref)]
    /\ call' = "reset"
    /\ ret' = TRUE
    /\ UNCHANGED << action, reward, terminated, truncated, observation, info,
                    max_ticks, seed, np_random, pending_assignments,
                    input_cooldown_ticks, deferred_action,
                    ready_to_apply_deferred, patient_moves >>

RetroNext ==
    \/ RetroFrame
    \/ RetroSelect
    \/ RetroClickBed
    \/ RetroClickVent
    \/ RetroReset

RetroSpec == RetroInit /\ [][RetroNext]_vars

(* C38: a bed assignment queued at click time and applied later, after    *)
(* other ticks and assignments, takes effect only if the patient is still  *)
(* WAITING and that bed and that nurse are still available, and gives the  *)
(* patient exactly that bed and that nurse; otherwise it changes nothing;  *)
(* no bed and no nurse is held by two patients of the list.                *)
C38_Applies(task) ==
    LET p == TaskPatient(Engine, dropped, task.patient)
        x == RetroApply([s |-> Engine, dropped |-> dropped], task)
        q == TaskPatient(x.s, x.dropped, task.patient)
    IN IF p.status = WAITING /\ beds[task.bed] /\ nurses[task.nurse]
       THEN /\ q = [p EXCEPT !.status = IN_BED,
                             !.assigned_bed = task.bed,
                             !.assigned_nurse = task.nurse,
                             !.bed_setup_ticks = BedSetupTicks]
            /\ x.s.beds = [beds EXCEPT ![task.bed] = FALSE]
            /\ x.s.nurses = [nurses EXCEPT ![task.nurse] = FALSE]
            /\ x.s.free_beds = free_beds - 1
            /\ x.s.free_nurses = free_nurses - 1
       ELSE /\ x.s = Engine
            /\ x.dropped = dropped

C38_DeferredAssignmentSafe ==
    /\ \A i \in 1 .. Len(pending_assignments) :
        pending_assignments[i].bed # None => C38_Applies(pending_assignments[i])
    /\ \A j, k \in Positions :
        j # k =>
            /\ patients[j].assigned_bed # None
                  => patients[j].assigned_bed # patients[k].assigned_bed
            /\ patients[j].assigned_nurse # None
                  => patients[j].assigned_nurse # patients[k].assigned_nurse

\* a task is still queued for a nurse that another task has meanwhile given
\* to another patient, while its own patient is still waiting
C38_Witness ==
    /\ call = "frame"
    /\ \E i \in 1 .. Len(pending_assignments) :
        LET task == pending_assignments[i] IN
        /\ task.bed # None
        /\ Listed(task.patient)
        /\ patients[task.patient.id + 1].status = WAITING
        /\ beds[task.bed]
        /\ ~ nurses[task.nurse]
        /\ \E k \in Positions : /\ patients[k].status = IN_BED
                                /\ patients[k].assigned_nurse = task.nurse

(* C39: a reset cancels everything in flight: every unavailable resource   *)
(* is held by a patient of the current list, also when an assignment       *)
(* queued before the reset completes after it.                             *)
C39_ResetCancelsInFlight ==
    /\ \A b \in DOMAIN beds :
        ~ beds[b] => \E k \in Positions : patients[k].assigned_bed = b
    /\ \A n \in DOMAIN nurses :
        ~ nurses[n] => \E k \in Positions : patients[k].assigned_nurse = n
    /\ \A v \in DOMAIN ventilators :
        ~ ventilators[v] => \E k \in Positions : patients[k].assigned_ventilator = v

\* a bed and a nurse are reserved although the list is empty
C39_ReservedForDiscarded ==
    /\ episode > 0
    /\ patients = << >>
    /\ free_beds < num_beds
    /\ free_nurses < num_nurses

====
